---- MODULE Spec2Model ----
(***************************************************************************)
(* Synchronization and cache-consistency layer of twitter-analytics:       *)
(* the MongoDB-backed store (src/database.py) and the cache-first          *)
(* controller (src/twitter_live_api.py, production branch).                *)
(*                                                                         *)
(* A collection is a bag of documents: MongoDB itself does not make keys   *)
(* unique, the upsert operations of the code do. A document is a record    *)
(* over the union of the fields any writer sets; a field a writer never    *)
(* set holds ABSENT (numbers) or "ABSENT" (strings), Python's None is      *)
(* NONE / "NONE".                                                          *)
(***************************************************************************)
EXTENDS Integers, Sequences, FiniteSets, Bags, TLC

VARIABLES connected, now, users, tweets, connections, api_cache, user_data, last,
          official, rettiwt, writers, analytics

vars == <<connected, now, users, tweets, connections, api_cache, user_data, last,
          official, rettiwt, writers, analytics>>
store == <<users, tweets, connections, api_cache, user_data>>
\* The adapters, the server-side writers and the archive analytics: untouched by a
\* call of Database or of the controller.
others == <<official, rettiwt, writers, analytics>>

(***************************************************************************)
(* Bounds of the model.                                                    *)
(***************************************************************************)
MaxBatch == 2
MaxTime == 75
MaxUploads == 1
MaxWriters == 3
MaxAccounts == 11
MaxPages == 33
PageSize == 75

(***************************************************************************)
(* Program constants.                                                      *)
(***************************************************************************)
TWEETS_TTL == 15
CONN_TTL == 60
NO_CACHE_AGE == 999999
FRESH_LIMIT == 3200
CONN_LIMIT == 1000
UPLOADS_LIMIT == 10
GROWTH_DAYS == 30
MAX_PAGES == 32

ABSENT == -1
NONE == -2

Min(a, b) == IF a < b THEN a ELSE b
B(x) == IF x THEN 1 ELSE 0

Subjects == {"u1"}
TweetIds == {"p1", "p2"}
ConnIds == {"c1"}
ConnTypes == {"followers", "following"}

\* The clock, in minutes: the instants at which a TTL can be met exactly.
Times == {t \in {0, TWEETS_TTL, CONN_TTL, CONN_TTL + TWEETS_TTL} : t <= MaxTime}

(***************************************************************************)
(* Dates. A date string is parsed by format; the value is the day number   *)
(* of the instant (December 2025), NONE when strptime raises.              *)
(***************************************************************************)
LIVE_D1 == "2025-12-01T06:23:48.000Z"
LIVE_D2 == "2025-12-02T06:23:48.000Z"
ARCH_D1 == "Mon Dec 01 06:23:48 +0000 2025"
ARCH_D2 == "Tue Dec 02 06:23:48 +0000 2025"
LIVE_NOFRAC == "2025-12-02T06:23:48Z"
BAD_DATE == "yesterday"

\* 'T' in date_str and date_str.endswith('Z')
LooksV2(s) == s \in {LIVE_D1, LIVE_D2, LIVE_NOFRAC}

\* datetime.strptime(date_str, '%Y-%m-%dT%H:%M:%S.%fZ')
StrptimeV2(s) ==
    CASE s = LIVE_D1 -> 1
      [] s = LIVE_D2 -> 2
      [] OTHER -> NONE

\* datetime.strptime(date_str, '%a %b %d %H:%M:%S %z %Y')
StrptimeArchive(s) ==
    CASE s = ARCH_D1 -> 1
      [] s = ARCH_D2 -> 2
      [] OTHER -> NONE

\* The parser with the archive format left out.
ParseV2Only(date_str) ==
    IF date_str \in {"NONE", ""} THEN NONE
    ELSE IF LooksV2(date_str) THEN StrptimeV2(date_str)
    ELSE NONE

_parse_twitter_date(date_str) ==
    IF date_str \in {"NONE", ""} THEN NONE
    ELSE IF LooksV2(date_str) THEN StrptimeV2(date_str)
    ELSE StrptimeArchive(date_str)

\* created_at.strftime('%Y-%m-%dT%H:%M:%S.000Z')
Strftime(d) ==
    CASE d = 1 -> LIVE_D1
      [] d = 2 -> LIVE_D2
      [] OTHER -> "NONE"

(***************************************************************************)
(* int(x) of the archive's numeric strings: IntRaises where int() raises   *)
(* ValueError.                                                             *)
(***************************************************************************)
IntRaises(s) == s \notin {"0", "7", "12"}
IntOf(s) ==
    CASE s = "0" -> 0
      [] s = "7" -> 7
      [] s = "12" -> 12
      [] OTHER -> NONE

\* text.startswith('@')
StartsWithAt(s) == s \in {"@bob hi"}

(***************************************************************************)
(* Records of the two source shapes.                                       *)
(***************************************************************************)
LiveDate(i) == IF i = "p1" THEN LIVE_D1 ELSE LIVE_D2
LiveText(i) == IF i = "p1" THEN "hello" ELSE "@bob hi"
ArchDate(i) == IF i = "p1" THEN ARCH_D1 ELSE ARCH_D2

\* A tweet of the live API: id, text, created_at, public_metrics.
LiveTweet(i, x, k) ==
    [id |-> i, text |-> x, created_at |-> LiveDate(i),
     like_count |-> k, retweet_count |-> 1, reply_count |-> 2,
     quote_count |-> 3, bookmark_count |-> 4, impression_count |-> 100]

LiveTweets ==
    {LiveTweet("p1", LiveText("p1"), 10), LiveTweet("p1", LiveText("p1"), 50),
     LiveTweet("p2", LiveText("p2"), 10)}
\* 'text': None makes t.get('text', '').startswith raise AttributeError.
BadLiveTweets == {LiveTweet("p2", "NONE", 10)}

\* tweet_obj['tweet'] of the archive: id_str, created_at, full_text, counts as strings.
ArchiveTweet(i, f) ==
    [id_str |-> i, created_at |-> ArchDate(i), full_text |-> "archived",
     favorite_count |-> f, retweet_count |-> "0",
     in_reply_to_status_id |-> FALSE, retweeted |-> FALSE]

ArchiveTweets == {ArchiveTweet("p1", "7"), ArchiveTweet("p1", "12"), ArchiveTweet("p2", "7")}
\* a favorite_count on which int() raises ValueError.
BadArchiveTweets == {ArchiveTweet("p2", "n/a")}

\* A user of a relation list of the live API.
ConnUser(i, n) ==
    [id |-> i, username |-> "bob", name |-> n, created_at |-> LIVE_D1,
     followers_count |-> 5, verified |-> FALSE]

ConnUsers == {ConnUser(i, n) : i \in ConnIds, n \in {"Bob", "Bobby"}}

UserInfo(i, n) == [id |-> i, username |-> "alice", name |-> n, verified |-> FALSE]
UserInfos == {UserInfo(i, n) : i \in Subjects, n \in {"Alice", "Al"}}

Batches(S) == UNION {[1..n -> S] : n \in 0..MaxBatch}

(***************************************************************************)
(* MongoDB primitives (pymongo): documents, update-with-upsert, bulk_write.*)
(***************************************************************************)
NoFields == [f \in {} |-> 0]

\* $set / $setOnInsert: the fields of upd replace those of doc, the others stay.
Merge(doc, upd) == [f \in DOMAIN doc |-> IF f \in DOMAIN upd THEN upd[f] ELSE doc[f]]

Matches(doc, filter) == \A f \in DOMAIN filter : doc[f] = filter[f]

Find(coll, filter) == {d \in BagToSet(coll) : Matches(d, filter)}

Count(coll, filter) == BagCardinality([d \in Find(coll, filter) |-> coll[d]])

Insert(coll, doc) == coll (+) SetToBag({doc})

Replace(coll, old, new) == (coll (-) SetToBag({old})) (+) SetToBag({new})

\* An update with upsert that always inserts (no match on the filter).
UpdateOneAlwaysInsert(coll, op, empty) ==
    [coll |-> Insert(coll, Merge(Merge(Merge(empty, op.filter), op.set), op.setOnInsert)),
     upserted |-> 1, modified |-> 0]

\* UpdateOne(filter, {'$set': set, '$setOnInsert': setOnInsert}, upsert=True)
UpdateOne(coll, op, empty) ==
    LET matching == Find(coll, op.filter) IN
    IF matching # {}
    THEN LET old == CHOOSE d \in matching : TRUE
             new == Merge(old, op.set)
         IN  [coll |-> Replace(coll, old, new), upserted |-> 0, modified |-> B(new # old)]
    ELSE [coll |-> Insert(coll, Merge(Merge(Merge(empty, op.filter), op.set), op.setOnInsert)),
          upserted |-> 1, modified |-> 0]

\* collection.bulk_write(ops, ordered=False): the operations are applied one by
\* one, in the order of the list (pymongo sends them in that order and the server
\* runs one batch serially); an operation the server rejects (a write error) is
\* skipped and the others are still applied; errors > 0 is pymongo raising
\* BulkWriteError once all operations were tried.
RECURSIVE BulkFrom(_, _, _, _, _)
BulkFrom(acc, ops, rejected, empty, k) ==
    IF k > Len(ops) THEN acc
    ELSE IF k \in rejected
    THEN BulkFrom([acc EXCEPT !.errors = @ + 1], ops, rejected, empty, k + 1)
    ELSE LET r == UpdateOne(acc.coll, ops[k], empty) IN
         BulkFrom([coll |-> r.coll, upserted |-> acc.upserted + r.upserted,
                   modified |-> acc.modified + r.modified, errors |-> acc.errors],
                  ops, rejected, empty, k + 1)

bulk_write(coll, ops, rejected, empty) ==
    BulkFrom([coll |-> coll, upserted |-> 0, modified |-> 0, errors |-> 0],
             ops, rejected, empty, 1)

(***************************************************************************)
(* Return values.                                                          *)
(***************************************************************************)
RInt(n) == [tag |-> "int", n |-> n, items |-> <<>>]
RNone == [tag |-> "None", n |-> 0, items |-> <<>>]
RBool(b) == [tag |-> "bool", n |-> B(b), items |-> <<>>]
RList(s) == [tag |-> "list", n |-> Len(s), items |-> s]
RDoc(d) == [tag |-> "doc", n |-> 1, items |-> <<d>>]

(***************************************************************************)
(* The tweets collection.                                                  *)
(***************************************************************************)
EmptyTweetDoc ==
    [user_id |-> "ABSENT", tweet_id |-> "ABSENT", created_at |-> ABSENT,
     full_text |-> "ABSENT", favorite_count |-> ABSENT, retweet_count |-> ABSENT,
     reply_count |-> ABSENT, quote_count |-> ABSENT, bookmark_count |-> ABSENT,
     impression_count |-> ABSENT, is_start_reply |-> ABSENT, inserted_at |-> ABSENT,
     is_reply |-> ABSENT, is_retweet |-> ABSENT, uploaded_at |-> ABSENT]

TweetKey(user_id, tweet_id) == [user_id |-> user_id, tweet_id |-> tweet_id]

\* tweet_doc of save_tweets
ArchiveTweetDoc(user_id, tweet) ==
    [user_id |-> user_id,
     tweet_id |-> tweet.id_str,
     created_at |-> _parse_twitter_date(tweet.created_at),
     full_text |-> tweet.full_text,
     favorite_count |-> IntOf(tweet.favorite_count),
     retweet_count |-> IntOf(tweet.retweet_count),
     is_reply |-> B(tweet.in_reply_to_status_id),
     is_retweet |-> B(tweet.retweeted),
     uploaded_at |-> now]

ArchiveDocRaises(tweet) ==
    IntRaises(tweet.favorite_count) \/ IntRaises(tweet.retweet_count)

\* The archive write as an update that sets only the engagement counts.
ArchiveOpCountsOnly(user_id, tweet) ==
    [filter |-> TweetKey(user_id, tweet.id_str),
     set |-> [favorite_count |-> IntOf(tweet.favorite_count),
              retweet_count |-> IntOf(tweet.retweet_count)],
     setOnInsert |-> ArchiveTweetDoc(user_id, tweet)]

\* The archive write as an insert-only update.
ArchiveOpInsertOnly(user_id, tweet) ==
    [filter |-> TweetKey(user_id, tweet.id_str),
     set |-> NoFields,
     setOnInsert |-> ArchiveTweetDoc(user_id, tweet)]

ArchiveOp(user_id, tweet) ==
    [filter |-> TweetKey(user_id, tweet.id_str),
     set |-> ArchiveTweetDoc(user_id, tweet),
     setOnInsert |-> NoFields]

save_tweets(user_id, tweets_data, rejected) ==
    IF ~connected THEN [tweets |-> tweets, ret |-> RInt(0)]
    ELSE IF \E i \in DOMAIN tweets_data : ArchiveDocRaises(tweets_data[i])
    THEN [tweets |-> tweets, ret |-> RInt(0)]
    ELSE IF tweets_data = <<>> THEN [tweets |-> tweets, ret |-> RInt(0)]
    ELSE LET ops == [i \in DOMAIN tweets_data |-> ArchiveOp(user_id, tweets_data[i])]
             r == bulk_write(tweets, ops, rejected, EmptyTweetDoc)
         IN  IF r.errors > 0 THEN [tweets |-> r.coll, ret |-> RInt(0)]
             ELSE [tweets |-> r.coll, ret |-> RInt(r.upserted + r.modified)]

\* tweet_doc of save_live_tweets
LiveTweetDoc(user_id, t) ==
    [user_id |-> user_id,
     tweet_id |-> t.id,
     created_at |-> _parse_twitter_date(t.created_at),
     full_text |-> t.text,
     favorite_count |-> t.like_count,
     retweet_count |-> t.retweet_count,
     reply_count |-> t.reply_count,
     quote_count |-> t.quote_count,
     bookmark_count |-> t.bookmark_count,
     impression_count |-> t.impression_count,
     is_start_reply |-> B(StartsWithAt(t.text)),
     inserted_at |-> now]

LiveDocRaises(t) == t.text = "NONE"

\* The live write as a full overwrite ($set instead of $setOnInsert).
LiveOpOverwrite(user_id, t) ==
    [filter |-> TweetKey(user_id, t.id),
     set |-> LiveTweetDoc(user_id, t),
     setOnInsert |-> NoFields]

LiveOp(user_id, t) ==
    [filter |-> TweetKey(user_id, t.id),
     set |-> NoFields,
     setOnInsert |-> LiveTweetDoc(user_id, t)]

save_live_tweets(user_id, tweets_data, rejected) ==
    IF ~connected \/ tweets_data = <<>> THEN [tweets |-> tweets, ret |-> RInt(0)]
    ELSE IF \E i \in DOMAIN tweets_data : LiveDocRaises(tweets_data[i])
    THEN [tweets |-> tweets, ret |-> RInt(0)]
    ELSE LET ops == [i \in DOMAIN tweets_data |-> LiveOp(user_id, tweets_data[i])]
             r == bulk_write(tweets, ops, rejected, EmptyTweetDoc)
         IN  IF r.errors > 0 THEN [tweets |-> r.coll, ret |-> RInt(0)]
             ELSE [tweets |-> r.coll, ret |-> RInt(r.upserted)]

(***************************************************************************)
(* The connections collection.                                             *)
(***************************************************************************)
EmptyConnDoc ==
    [user_id |-> "ABSENT", connection_id |-> "ABSENT", type |-> "ABSENT",
     username |-> "ABSENT", name |-> "ABSENT", joined_at |-> "ABSENT",
     public_metrics |-> ABSENT, verified |-> ABSENT, updated_at |-> ABSENT]

ConnKey(user_id, connection_type, connection_id) ==
    [user_id |-> user_id, connection_id |-> connection_id, type |-> connection_type]

\* conn_doc of save_live_connections
ConnDoc(user_id, u, connection_type) ==
    [user_id |-> user_id,
     connection_id |-> u.id,
     type |-> connection_type,
     username |-> u.username,
     name |-> u.name,
     joined_at |-> u.created_at,
     public_metrics |-> u.followers_count,
     verified |-> B(u.verified),
     updated_at |-> now]

\* The connection write as an insert-only update.
ConnOpInsertOnly(user_id, u, connection_type) ==
    [filter |-> ConnKey(user_id, connection_type, u.id),
     set |-> NoFields,
     setOnInsert |-> ConnDoc(user_id, u, connection_type)]

ConnOp(user_id, u, connection_type) ==
    [filter |-> ConnKey(user_id, connection_type, u.id),
     set |-> ConnDoc(user_id, u, connection_type),
     setOnInsert |-> NoFields]

\* The stored relation list replaced by the fetched one.
ReplaceLiveConnections(user_id, users_list, connection_type, rejected) ==
    IF ~connected \/ users_list = <<>>
    THEN [connections |-> connections, ret |-> RInt(0)]
    ELSE LET old == Find(connections, [user_id |-> user_id, type |-> connection_type])
             kept == [d \in BagToSet(connections) \ old |-> connections[d]]
             new == {ConnDoc(user_id, users_list[i], connection_type) :
                        i \in DOMAIN users_list}
         IN  [connections |-> kept (+) SetToBag(new), ret |-> RInt(Cardinality(new))]

save_live_connections(user_id, users_list, connection_type, rejected) ==
    IF ~connected \/ users_list = <<>>
    THEN [connections |-> connections, ret |-> RInt(0)]
    ELSE LET ops == [i \in DOMAIN users_list |->
                        ConnOp(user_id, users_list[i], connection_type)]
             r == bulk_write(connections, ops, rejected, EmptyConnDoc)
         IN  IF r.errors > 0 THEN [connections |-> r.coll, ret |-> RInt(0)]
             ELSE [connections |-> r.coll, ret |-> RInt(r.upserted + r.modified)]

(***************************************************************************)
(* The users collection.                                                   *)
(***************************************************************************)
EmptyUserDoc ==
    [twitter_id |-> "ABSENT", username |-> "ABSENT", name |-> "ABSENT",
     verified |-> ABSENT, last_login |-> ABSENT, updated_at |-> ABSENT,
     created_at |-> ABSENT]

\* user_data of create_or_update_user
UserDoc(user_info) ==
    [twitter_id |-> user_info.id,
     username |-> user_info.username,
     name |-> user_info.name,
     verified |-> B(user_info.verified),
     last_login |-> now,
     updated_at |-> now]

UserOp(user_info) ==
    [filter |-> [twitter_id |-> user_info.id],
     set |-> UserDoc(user_info),
     setOnInsert |-> [created_at |-> now]]

\* find_one: a matching document, None when there is none.
FindOne(coll, filter) ==
    IF Find(coll, filter) = {} THEN RNone
    ELSE RDoc(CHOOSE d \in Find(coll, filter) : TRUE)

create_or_update_user(user_info) ==
    IF ~connected THEN [users |-> users, ret |-> RNone]
    ELSE LET r == UpdateOne(users, UserOp(user_info), EmptyUserDoc) IN
         [users |-> r.coll, ret |-> FindOne(r.coll, [twitter_id |-> user_info.id])]

get_user_by_twitter_id(twitter_id) ==
    IF ~connected THEN RNone ELSE FindOne(users, [twitter_id |-> twitter_id])

(***************************************************************************)
(* The user_data collection (archive uploads).                             *)
(***************************************************************************)
\* upload_data of save_user_upload; data is the number of tweets of the upload.
UploadDoc(user_id, data) ==
    [user_id |-> user_id, upload_date |-> now, total_tweets |-> data]

save_user_upload(user_id, data) ==
    IF ~connected THEN [user_data |-> user_data, ret |-> RNone]
    ELSE [user_data |-> Insert(user_data, UploadDoc(user_id, data)),
          ret |-> RDoc(UploadDoc(user_id, data))]

(***************************************************************************)
(* The api_cache collection.                                               *)
(***************************************************************************)
EmptyCacheDoc ==
    [user_id |-> "ABSENT", endpoint |-> "ABSENT", data |-> ABSENT, updated_at |-> ABSENT]

\* The cache entry keyed by the endpoint alone.
CacheKeyEndpointOnly(user_id, endpoint) == [endpoint |-> endpoint]

\* {'user_id': user_id, 'endpoint': endpoint}
CacheKey(user_id, endpoint) == [user_id |-> user_id, endpoint |-> endpoint]

CacheOp(user_id, endpoint, data) ==
    [filter |-> CacheKey(user_id, endpoint),
     set |-> [user_id |-> user_id, endpoint |-> endpoint, data |-> data,
              updated_at |-> now],
     setOnInsert |-> NoFields]

save_live_api_response(user_id, endpoint, data) ==
    IF ~connected THEN [api_cache |-> api_cache, ret |-> RNone]
    ELSE [api_cache |-> UpdateOne(api_cache, CacheOp(user_id, endpoint, data),
                                  EmptyCacheDoc).coll,
          ret |-> RBool(TRUE)]

get_live_api_response(user_id, endpoint) ==
    IF ~connected THEN RNone
    ELSE LET doc == FindOne(api_cache, CacheKey(user_id, endpoint)) IN
         IF doc.tag = "None" THEN RNone ELSE RInt(doc.items[1].data)

(***************************************************************************)
(* Reads. A cursor yields the matching documents in an order MongoDB       *)
(* chooses among those its sort allows, so a read denotes the set of the   *)
(* lists it can return.                                                    *)
(***************************************************************************)
Arrangements(coll, filter) ==
    LET S == Find(coll, filter)
        n == Count(coll, filter)
    IN  {s \in [1..n -> S] : \A d \in S : Cardinality({i \in 1..n : s[i] = d}) = coll[d]}

SortedDesc(s, f) == \A i, j \in DOMAIN s : i < j => s[i][f] >= s[j][f]
SortedAsc(s, f) == \A i, j \in DOMAIN s : i < j => s[i][f] <= s[j][f]

\* cursor.limit(n): 0 is "no limit"
Limit(s, limit) == IF limit = 0 THEN s ELSE SubSeq(s, 1, Min(Len(s), limit))

\* d.get(field, default)
Get(v, default) == IF v = ABSENT THEN default ELSE v

\* The live-API shape get_saved_tweets maps a stored document back to.
MapTweet(d) ==
    [id |-> d.tweet_id,
     text |-> d.full_text,
     created_at |-> IF d.created_at \in {ABSENT, NONE} THEN "NONE" ELSE Strftime(d.created_at),
     like_count |-> Get(d.favorite_count, 0),
     retweet_count |-> Get(d.retweet_count, 0),
     reply_count |-> Get(d.reply_count, 0),
     quote_count |-> Get(d.quote_count, 0),
     impression_count |-> Get(d.impression_count, 0)]

get_saved_tweets(user_id, limit) ==
    IF ~connected THEN {<<>>}
    ELSE {[i \in DOMAIN Limit(s, limit) |-> MapTweet(s[i])] :
            s \in {a \in Arrangements(tweets, [user_id |-> user_id]) :
                     SortedDesc(a, "created_at")}}

\* The API shape get_saved_connections maps a stored document back to.
MapConn(d) ==
    [id |-> d.connection_id, username |-> d.username, name |-> d.name,
     created_at |-> d.joined_at, followers_count |-> d.public_metrics,
     verified |-> d.verified]

get_saved_connections(user_id, connection_type, limit) ==
    IF ~connected THEN {<<>>}
    ELSE {[i \in DOMAIN Limit(s, limit) |-> MapConn(s[i])] :
            s \in Arrangements(connections, [user_id |-> user_id, type |-> connection_type])}

get_user_uploads(user_id, limit) ==
    IF ~connected THEN {RList(<<>>)}
    ELSE {RList(Limit(s, limit)) :
            s \in {a \in Arrangements(user_data, [user_id |-> user_id]) :
                     SortedDesc(a, "upload_date")}}

\* The day number of datetime.now(): every instant of the clock falls on it.
Today == 10

get_growth_data(user_id, days) ==
    IF ~connected THEN {RNone}
    ELSE LET S == {d \in Find(tweets, [user_id |-> user_id]) :
                     d.created_at >= 0 /\ d.created_at >= Today - days}
             n == BagCardinality([d \in S |-> tweets[d]])
         IN  {RList(s) : s \in {a \in [1..n -> S] :
                /\ \A d \in S : Cardinality({i \in 1..n : a[i] = d}) = tweets[d]
                /\ SortedAsc(a, "created_at")}}

\* 'updated_at' in latest_doc
HasField(doc, f) == f \in DOMAIN doc /\ doc[f] # ABSENT

MaxOf(S) == CHOOSE m \in S : \A x \in S : x <= m

\* get_cache_age on a reachable store.
CacheAgeConnected(user_id, endpoint) ==
    LET docs == IF endpoint = "recent_tweets"
                THEN Find(tweets, [user_id |-> user_id])
                ELSE IF endpoint \in {"followers", "following"}
                THEN Find(connections, [user_id |-> user_id, type |-> endpoint])
                ELSE {}
        \* find_one(sort=[('updated_at', -1)]): a document whose updated_at is the
        \* greatest; a document without the field sorts last.
        stamped == {d \in docs : HasField(d, "updated_at")}
        meta == Find(api_cache, CacheKey(user_id, endpoint))
    IN  IF stamped # {} THEN now - MaxOf({d.updated_at : d \in stamped})
        ELSE IF meta # {} THEN now - (CHOOSE d \in meta : TRUE).updated_at
        ELSE NO_CACHE_AGE

\* The age of an unreachable store taken as zero.
CacheAgeZeroWhenDown(user_id, endpoint) ==
    IF ~connected THEN 0 ELSE CacheAgeConnected(user_id, endpoint)

\* Minutes since the last update of (user_id, endpoint).
get_cache_age(user_id, endpoint) ==
    IF ~connected THEN NO_CACHE_AGE ELSE CacheAgeConnected(user_id, endpoint)

(***************************************************************************)
(* The freshness test of the cache-first controller, TwitterLiveAPI        *)
(* (production branch).                                                    *)
(***************************************************************************)
\* The freshness test with the boundary counted as fresh.
IsFreshInclusive(age, ttl) == age <= ttl

\* age < 15, age < 60
IsFresh(age, ttl) == age < ttl

NonEmpty(lists) == \A s \in lists : s # <<>>

(***************************************************************************)
(* OfficialTwitterAPI: the object (its refresh credential) and the call it *)
(* is running. One call is a loop of _make_request calls; one              *)
(* _make_request is a request, on a 401 a token refresh, and after a       *)
(* refresh that worked a retry.                                            *)
(***************************************************************************)
\* _make_request returned None (cause tells why), or the JSON of a 200.
NoResult(cause) == [kind |-> "None", cause |-> cause, data |-> 0, next_token |-> FALSE]
Json(data, next_token) ==
    [kind |-> "json", cause |-> "", data |-> data, next_token |-> next_token]

\* No pagination_token in params, next_token = None.
NoToken == 0

OfficialIdle(refresh_token) ==
    [refresh_token |-> refresh_token, op |-> "idle", pc |-> "idle",
     pages |-> 0, sent |-> 0, refreshes |-> 0, status |-> 0,
     result |-> NoResult(""), all_tweets |-> 0, received |-> 0, cause |-> "",
     pagination_token |-> NoToken, next_token |-> NoToken, fetched |-> <<>>,
     ret |-> RNone]

(***************************************************************************)
(* RettiwtAPI: the object (_user_cache, the session's user_info, the       *)
(* default username) and its latest call.                                  *)
(***************************************************************************)
NoCache == {}

RettiwtIdle(cache, session, username) ==
    [cache |-> cache, session |-> session, username |-> username,
     op |-> "idle", user_id |-> "", handle |-> "NONE", requested |-> FALSE, ret |-> RNone]

(***************************************************************************)
(* Writers inside the server: an update with upsert is a lookup of the     *)
(* filter and then, separately, the update or the insert.                  *)
(***************************************************************************)
NoWriters == <<>>

(***************************************************************************)
(* The archive analytics (TwitterDashboard, AdvancedTwitterAnalytics,      *)
(* TwitterArchiveAnalyzer): the files of the archive, the loaded data and  *)
(* the latest result.                                                      *)
(***************************************************************************)
NoAnalytics == [op |-> "idle"]

(***************************************************************************)
(* State machine. last records the latest step: the operation called, its  *)
(* arguments, the clock and the connection it ran under, what it returned, *)
(* and for a controller call the path it took, whether the adapter was     *)
(* asked, and the cache age of its data class when it started.             *)
(***************************************************************************)
Call(op, user, args, ret, path, fetched, age) ==
    [op |-> op, user |-> user, args |-> args, rejected |-> {}, at |-> now,
     conn |-> connected, ret |-> ret, path |-> path, fetched |-> fetched, age |-> age,
     requests |-> <<>>]

StoreCall(op, user, args, ret) == Call(op, user, args, ret, "", FALSE, ABSENT)

\* A batch write, with the operations the server rejected.
BatchCall(op, user, args, rejected, ret) ==
    [StoreCall(op, user, args, ret) EXCEPT !.rejected = rejected]

Init ==
    /\ connected \in BOOLEAN
    /\ now = 0
    /\ users = EmptyBag
    /\ tweets = EmptyBag
    /\ connections = EmptyBag
    /\ api_cache = EmptyBag
    /\ user_data = EmptyBag
    /\ last = StoreCall("init", "", <<>>, RNone)
    /\ official = OfficialIdle(TRUE)
    /\ rettiwt = RettiwtIdle(NoCache, "NONE", "NONE")
    /\ writers = NoWriters
    /\ analytics = NoAnalytics

\* Time passes, to one of the instants of T.
Tick(T) ==
    /\ \E t \in T : t > now /\ now' = t
    /\ last' = StoreCall("tick", "", <<>>, RNone)
    /\ UNCHANGED <<others, connected, store>>

\* Database.__init__ in a new process: the store is reachable or it is not.
Construct ==
    /\ connected' = ~connected
    /\ last' = StoreCall("construct", "", <<>>, RNone)
    /\ UNCHANGED <<others, now, store>>

SaveTweets(user_id, tweets_data, rejected) ==
    LET r == save_tweets(user_id, tweets_data, rejected) IN
    /\ tweets' = r.tweets
    /\ last' = BatchCall("save_tweets", user_id, tweets_data, rejected, r.ret)
    /\ UNCHANGED <<others, connected, now, users, connections, api_cache, user_data>>

SaveLiveTweets(user_id, tweets_data, rejected) ==
    LET r == save_live_tweets(user_id, tweets_data, rejected) IN
    /\ tweets' = r.tweets
    /\ last' = BatchCall("save_live_tweets", user_id, tweets_data, rejected, r.ret)
    /\ UNCHANGED <<others, connected, now, users, connections, api_cache, user_data>>

SaveLiveConnections(user_id, users_list, connection_type, rejected) ==
    LET r == save_live_connections(user_id, users_list, connection_type, rejected) IN
    /\ connections' = r.connections
    /\ last' = BatchCall("save_live_connections", user_id,
                         [users_list |-> users_list, connection_type |-> connection_type],
                         rejected, r.ret)
    /\ UNCHANGED <<others, connected, now, users, tweets, api_cache, user_data>>

CreateOrUpdateUser(user_info) ==
    LET r == create_or_update_user(user_info) IN
    /\ users' = r.users
    /\ last' = StoreCall("create_or_update_user", user_info.id, user_info, r.ret)
    /\ UNCHANGED <<others, connected, now, tweets, connections, api_cache, user_data>>

SaveUserUpload(user_id, data) ==
    LET r == save_user_upload(user_id, data) IN
    /\ BagCardinality(user_data) < MaxUploads
    /\ user_data' = r.user_data
    /\ last' = StoreCall("save_user_upload", user_id, data, r.ret)
    /\ UNCHANGED <<others, connected, now, users, tweets, connections, api_cache>>

SaveLiveApiResponse(user_id, endpoint, data) ==
    LET r == save_live_api_response(user_id, endpoint, data) IN
    /\ api_cache' = r.api_cache
    /\ last' = StoreCall("save_live_api_response", user_id,
                         [endpoint |-> endpoint, data |-> data], r.ret)
    /\ UNCHANGED <<others, connected, now, users, tweets, connections, user_data>>

\* A read: the store stays, last holds what the call returned.
Read(op, user_id, args, ret) ==
    /\ last' = StoreCall(op, user_id, args, ret)
    /\ UNCHANGED <<others, connected, now, store>>

GetSavedTweets(user_id, limit) ==
    \E s \in get_saved_tweets(user_id, limit) :
        Read("get_saved_tweets", user_id, limit, RList(s))

GetSavedConnections(user_id, connection_type, limit) ==
    \E s \in get_saved_connections(user_id, connection_type, limit) :
        Read("get_saved_connections", user_id, connection_type, RList(s))

GetUserByTwitterId(twitter_id) ==
    Read("get_user_by_twitter_id", twitter_id, twitter_id, get_user_by_twitter_id(twitter_id))

GetUserUploads(user_id, limit) ==
    \E r \in get_user_uploads(user_id, limit) : Read("get_user_uploads", user_id, limit, r)

GetGrowthData(user_id, days) ==
    \E r \in get_growth_data(user_id, days) : Read("get_growth_data", user_id, days, r)

GetCacheAge(user_id, endpoint) ==
    Read("get_cache_age", user_id, endpoint, RInt(get_cache_age(user_id, endpoint)))

GetLiveApiResponse(user_id, endpoint) ==
    Read("get_live_api_response", user_id, endpoint, get_live_api_response(user_id, endpoint))

(***************************************************************************)
(* Controller calls. remote is what the adapter call does: it raises       *)
(* (kind "raises"), or it returns None, a response without data, or data.  *)
(***************************************************************************)
RemoteTweets(lists) ==
    {[kind |-> "raises", data |-> <<>>]} \cup {[kind |-> "data", data |-> b] : b \in lists}

\* The cache is served whatever force_refresh says.
RecentTweetsServesCacheAnyway(user_id, force_refresh) ==
    /\ connected
    /\ IsFresh(get_cache_age(user_id, "recent_tweets"), TWEETS_TTL)
    /\ NonEmpty(get_saved_tweets(user_id, FRESH_LIMIT))

\* not force_refresh and connected, age < 15, and cached is not empty
RecentTweetsServesCache(user_id, force_refresh) ==
    /\ ~force_refresh
    /\ connected
    /\ IsFresh(get_cache_age(user_id, "recent_tweets"), TWEETS_TTL)
    /\ NonEmpty(get_saved_tweets(user_id, FRESH_LIMIT))

\* The fallback read with the limit of the fresh path.
FallbackLimitFresh(max_results) == FRESH_LIMIT

\* get_saved_tweets(user_id, limit=max_results)
FallbackLimit(max_results) == max_results

TweetsArgs(max_results, force_refresh) ==
    [max_results |-> max_results, pagination_token |-> "NONE",
     force_refresh |-> force_refresh]

get_recent_tweets(user_id, max_results, force_refresh, remote) ==
    LET args == TweetsArgs(max_results, force_refresh)
        age == get_cache_age(user_id, "recent_tweets")
    IN
    IF RecentTweetsServesCache(user_id, force_refresh)
    THEN /\ \E s \in get_saved_tweets(user_id, FRESH_LIMIT) :
              last' = Call("get_recent_tweets", user_id, args, RList(s), "FRESH", FALSE, age)
         /\ UNCHANGED <<others, connected, now, store>>
    ELSE IF remote.kind = "data" /\ remote.data # <<>>
    THEN /\ tweets' = save_live_tweets(user_id, remote.data, {}).tweets
         /\ api_cache' = save_live_api_response(user_id, "recent_tweets",
                                                Len(remote.data)).api_cache
         /\ last' = Call("get_recent_tweets", user_id, args, RList(remote.data),
                         "SUCCESS", TRUE, age)
         /\ UNCHANGED <<others, connected, now, users, connections, user_data>>
    ELSE /\ \E s \in (IF connected
                      THEN get_saved_tweets(user_id, FallbackLimit(max_results))
                      ELSE {<<>>}) :
              last' = Call("get_recent_tweets", user_id, args, RList(s), "FALLBACK", TRUE, age)
         /\ UNCHANGED <<others, connected, now, store>>

RemoteUsers(lists) ==
    {[kind |-> k, data |-> <<>>] : k \in {"raises", "None", "nodata"}}
        \cup {[kind |-> "data", data |-> b] : b \in lists}

\* The stored relation is served when fresh, whether it holds a record or not.
RelationServesCacheEmpty(user_id, endpoint, pagination_token, force_refresh) ==
    /\ ~force_refresh
    /\ pagination_token = "NONE"
    /\ connected
    /\ IsFresh(get_cache_age(user_id, endpoint), CONN_TTL)

\* not force_refresh and not pagination_token and connected, age < 60, cached
RelationServesCache(user_id, endpoint, pagination_token, force_refresh) ==
    /\ ~force_refresh
    /\ pagination_token = "NONE"
    /\ connected
    /\ IsFresh(get_cache_age(user_id, endpoint), CONN_TTL)
    /\ NonEmpty(get_saved_connections(user_id, endpoint, CONN_LIMIT))

\* The fetched page is saved whatever the call passed.
PersistsRelationAlways(pagination_token) == connected

\* if db.is_connected() and not pagination_token
PersistsRelation(pagination_token) == connected /\ pagination_token = "NONE"

\* get_followers and get_following differ in the endpoint only.
GetRelation(op, endpoint, user_id, max_results, pagination_token, force_refresh, remote) ==
    LET args == [max_results |-> max_results, pagination_token |-> pagination_token,
                 force_refresh |-> force_refresh]
        age == get_cache_age(user_id, endpoint)
    IN
    IF RelationServesCache(user_id, endpoint, pagination_token, force_refresh)
    THEN /\ \E s \in get_saved_connections(user_id, endpoint, CONN_LIMIT) :
              last' = Call(op, user_id, args, RList(s), "FRESH", FALSE, age)
         /\ UNCHANGED <<others, connected, now, store>>
    ELSE IF remote.kind = "data"
    THEN /\ IF PersistsRelation(pagination_token)
            THEN /\ connections' =
                        save_live_connections(user_id, remote.data, endpoint, {}).connections
                 /\ api_cache' = save_live_api_response(user_id, endpoint,
                                                        Len(remote.data)).api_cache
            ELSE UNCHANGED <<connections, api_cache>>
         /\ last' = Call(op, user_id, args, RList(remote.data), "SUCCESS", TRUE, age)
         /\ UNCHANGED <<others, connected, now, users, tweets, user_data>>
    ELSE /\ \E s \in (IF connected
                      THEN get_saved_connections(user_id, endpoint, CONN_LIMIT)
                      ELSE {<<>>}) :
              last' = Call(op, user_id, args, IF s # <<>> THEN RList(s) ELSE RNone,
                           "FALLBACK", TRUE, age)
         /\ UNCHANGED <<others, connected, now, store>>

get_followers(user_id, max_results, pagination_token, force_refresh, remote) ==
    GetRelation("get_followers", "followers", user_id, max_results, pagination_token,
                force_refresh, remote)

get_following(user_id, max_results, pagination_token, force_refresh, remote) ==
    GetRelation("get_following", "following", user_id, max_results, pagination_token,
                force_refresh, remote)

(***************************************************************************)
(* OfficialTwitterAPI: _make_request and the calls that use it.            *)
(***************************************************************************)
Statuses == {200, 401, 404, 429, 500}

\* What the backend answers to one HTTP request: requests.request raises, or a
\* response with a status and, for a 200, its JSON: a page of PageSize items with
\* or without meta.next_token, or a body without 'data'.
Responses ==
    {[raises |-> TRUE, status |-> 0, body |-> NoResult("raised")]}
        \cup {[raises |-> FALSE, status |-> 200, body |-> b] :
                b \in {Json(PageSize, TRUE), Json(PageSize, FALSE), Json(0, FALSE)}}
        \cup {[raises |-> FALSE, status |-> s, body |-> NoResult("")] :
                s \in Statuses \ {200}}

\* if status == 200: json; elif 429: None; else: None
ResultOf(r) ==
    IF r.raises THEN NoResult("raised")
    ELSE IF r.status = 200 THEN r.body
    ELSE IF r.status = 429 THEN NoResult("rate_limit")
    ELSE NoResult("error")

\* A 401 on the retry starts another refresh.
AfterRetryRefreshAgain(status) == IF status = 401 THEN "refresh" ELSE "consume"

\* The response of the retry goes to the status tests, whatever it is.
AfterRetry(status) == "consume"

\* The pages fetched so far are dropped when a page fails.
AfterBreakNothing(all_tweets) == 0

\* break, then return all_tweets
AfterBreak(all_tweets) == all_tweets

\* The loop of get_recent_tweets without its bound.
MorePagesUncapped(op, pages) == TRUE

\* for _ in range(max_pages) / while True
MorePages(op, pages) == op = "get_all_tweets_since" \/ pages < MAX_PAGES

\* The page of the timeline that a request with pagination_token designates, and
\* the continuation token that the response of that page carries.
PageOf(pagination_token) == pagination_token + 1
NextTokenOf(pagination_token) == pagination_token + 1

\* The page requested again from the start, whatever the response said.
PaginationTokenFirstPage(op, pagination_token, next_token) == NoToken

\* if next_token: params['pagination_token'] = next_token. get_recent_tweets keeps
\* its params across iterations, get_all_tweets_since builds them anew.
PaginationToken(op, pagination_token, next_token) ==
    IF next_token # NoToken THEN next_token
    ELSE IF op = "get_recent_tweets" THEN pagination_token ELSE NoToken

PagingOps == {"get_recent_tweets", "get_all_tweets_since"}
OfficialOps == PagingOps \cup {"get_followers"}

OfficialFrame == UNCHANGED <<rettiwt, writers, analytics, connected, now, store, last>>

\* A call of the adapter begins.
OfficialCall(op) ==
    /\ official.pc \in {"idle", "done"}
    /\ official' = [OfficialIdle(official.refresh_token) EXCEPT !.op = op, !.pc = "loop"]
    /\ OfficialFrame

\* The head of the page loop: one more _make_request, or the loop is exhausted.
OfficialLoop ==
    /\ official.pc = "loop"
    /\ official.pages < MaxPages
    /\ IF MorePages(official.op, official.pages)
       THEN official' = [official EXCEPT !.pc = "request", !.pages = @ + 1,
                                         !.sent = 0, !.refreshes = 0, !.status = 0,
                                         !.pagination_token =
                                             PaginationToken(official.op, @, official.next_token)]
       ELSE official' = [official EXCEPT !.pc = "done",
                                         !.ret = RInt(official.all_tweets)]
    /\ OfficialFrame

Received(o, result) ==
    IF result.kind = "json" THEN o.received + result.data ELSE o.received

\* requests.request(method, url, ...), the first of the _make_request call.
OfficialRequest ==
    /\ official.pc = "request"
    /\ \E r \in Responses :
          official' =
              IF ~r.raises /\ r.status = 401
              THEN [official EXCEPT !.pc = "refresh", !.sent = @ + 1, !.status = 401]
              ELSE [official EXCEPT !.pc = "consume", !.sent = @ + 1,
                                    !.status = r.status, !.result = ResultOf(r),
                                    !.received = Received(official, ResultOf(r))]
    /\ OfficialFrame

\* _refresh_access_token: False without a refresh token; otherwise one call of
\* refresh_access_token, which returns the new tokens, returns nothing, or raises.
OfficialRefresh ==
    /\ official.pc = "refresh"
    /\ IF ~official.refresh_token
       THEN official' = [official EXCEPT !.pc = "consume", !.result = NoResult("reauth")]
       ELSE \E outcome \in {"tokens", "None", "raises"} :
               official' =
                   IF outcome = "tokens"
                   THEN [official EXCEPT !.pc = "retry", !.refreshes = @ + 1]
                   ELSE [official EXCEPT !.pc = "consume", !.refreshes = @ + 1,
                                         !.result = NoResult("reauth")]
    /\ OfficialFrame

\* The retry with the new token.
OfficialRetry ==
    /\ official.pc = "retry"
    /\ \E r \in Responses :
          official' = [official EXCEPT !.pc = AfterRetry(r.status), !.sent = @ + 1,
                                       !.status = r.status, !.result = ResultOf(r),
                                       !.received = Received(official, ResultOf(r))]
    /\ OfficialFrame

\* The caller of _make_request takes the result.
OfficialConsume ==
    /\ official.pc = "consume"
    /\ LET result == official.result IN
       official' =
           IF official.op = "get_followers"
           THEN [official EXCEPT !.pc = "done", !.cause = result.cause,
                    !.ret = IF result.kind = "None" THEN RNone ELSE RInt(result.data)]
           ELSE IF result.kind = "json" /\ result.data > 0
           THEN LET all == official.all_tweets + result.data
                    page == PageOf(official.pagination_token) IN
                IF result.next_token
                THEN [official EXCEPT !.pc = "loop", !.all_tweets = all,
                                      !.fetched = Append(@, page),
                                      !.next_token = NextTokenOf(official.pagination_token)]
                ELSE [official EXCEPT !.pc = "done", !.all_tweets = all,
                                      !.fetched = Append(@, page),
                                      !.next_token = NoToken, !.ret = RInt(all)]
           ELSE [official EXCEPT !.pc = "done", !.cause = result.cause,
                                 !.ret = RInt(AfterBreak(official.all_tweets))]
    /\ OfficialFrame

OfficialInit ==
    /\ connected = TRUE
    /\ now = 0
    /\ users = EmptyBag
    /\ tweets = EmptyBag
    /\ connections = EmptyBag
    /\ api_cache = EmptyBag
    /\ user_data = EmptyBag
    /\ last = StoreCall("init", "", <<>>, RNone)
    /\ official \in {OfficialIdle(r) : r \in BOOLEAN}
    /\ rettiwt = RettiwtIdle(NoCache, "NONE", "NONE")
    /\ writers = NoWriters
    /\ analytics = NoAnalytics

OfficialNext ==
    \/ \E op \in OfficialOps : OfficialCall(op)
    \/ OfficialLoop
    \/ OfficialRequest
    \/ OfficialRefresh
    \/ OfficialRetry
    \/ OfficialConsume

OfficialSpec == OfficialInit /\ [][OfficialNext]_vars

(***************************************************************************)
(* RettiwtAPI: the calls that need a handle.                               *)
(***************************************************************************)
UserIds == {"A", "B"}
Handles == {"alice", "bob"}
HandleOf(id) == IF id = "A" THEN "alice" ELSE "bob"

\* _user_cache: username -> user data (with its id).
CacheEntries == {[username |-> HandleOf(i), id |-> i] : i \in UserIds}
\* st.session_state.user_info, id "NONE" when there is none.
NoSession == [id |-> "NONE", username |-> "NONE"]
Sessions == {NoSession} \cup CacheEntries

\* The handles _get_username_from_id can return ({"NONE"} for None): an entry of
\* the cache with this id, else the session's user when it has this id, else the
\* default username.
_get_username_from_id(r, user_id) ==
    IF \E e \in r.cache : e.id = user_id
    THEN {e.username : e \in {x \in r.cache : x.id = user_id}}
    ELSE IF r.session.id = user_id THEN {r.session.username}
    ELSE {r.username}

\* What RettiwtAPI._make_request returns: None (404, an error status, an exception)
\* or the JSON of a 200, with or without 'data'.
RettiwtResults == {NoResult("error"), Json(0, FALSE), Json(PageSize, FALSE)}

RettiwtListOps == {"get_recent_tweets", "get_all_tweets_since"}
RettiwtRelOps == {"get_followers", "get_following"}

\* One call: the handle is resolved; without one the call returns at once ([] or
\* None), with one it makes its request and returns the data ([] when there is
\* none) or, for a relation, the result as it is.
RettiwtCall(op, user_id, result) ==
    /\ \E handle \in _get_username_from_id(rettiwt, user_id) :
          rettiwt' =
              [rettiwt EXCEPT
                  !.op = op, !.user_id = user_id, !.handle = handle,
                  !.requested = (handle # "NONE"),
                  !.ret = IF op \in RettiwtListOps
                          THEN (IF handle # "NONE" /\ result.kind = "json"
                                THEN RInt(result.data) ELSE RInt(0))
                          ELSE (IF handle # "NONE" /\ result.kind = "json"
                                THEN RDoc(result) ELSE RNone)]
    /\ UNCHANGED <<official, writers, analytics, connected, now, store, last>>

RettiwtInit ==
    /\ connected = TRUE
    /\ now = 0
    /\ users = EmptyBag
    /\ tweets = EmptyBag
    /\ connections = EmptyBag
    /\ api_cache = EmptyBag
    /\ user_data = EmptyBag
    /\ last = StoreCall("init", "", <<>>, RNone)
    /\ official = OfficialIdle(TRUE)
    /\ rettiwt \in {RettiwtIdle(c, s, n) :
                      c \in SUBSET CacheEntries, s \in Sessions, n \in Handles \cup {"NONE"}}
    /\ writers = NoWriters
    /\ analytics = NoAnalytics

RettiwtNext ==
    \E op \in RettiwtListOps \cup RettiwtRelOps, u \in UserIds, r \in RettiwtResults :
        RettiwtCall(op, u, r)

RettiwtSpec == RettiwtInit /\ [][RettiwtNext]_vars

(***************************************************************************)
(* The factory get_twitter_api and the constructor of TwitterLiveAPI.      *)
(***************************************************************************)
RRaise == [tag |-> "raise", n |-> 0, items |-> <<>>]

\* access_token: a token or None.
AccessTokens == {"NONE", "token"}

\* get_twitter_api: the adapter object, or the ValueError of the official mode
\* without an access token.
get_twitter_api(use_official, access_token, refresh_token, username) ==
    IF use_official
    THEN IF access_token = "NONE"
         THEN [raised |-> TRUE, official |-> official, rettiwt |-> rettiwt]
         ELSE [raised |-> FALSE, official |-> OfficialIdle(refresh_token), rettiwt |-> rettiwt]
    ELSE [raised |-> FALSE, official |-> official,
          rettiwt |-> RettiwtIdle(NoCache, rettiwt.session, username)]

\* A call of the factory, directly or from TwitterLiveAPI.__init__, which calls
\* it outside any try block.
GetTwitterApi(caller, use_official, access_token, refresh_token, username) ==
    LET r == get_twitter_api(use_official, access_token, refresh_token, username)
    IN  /\ official' = r.official
        /\ rettiwt' = r.rettiwt
        /\ last' = Call(caller, username, <<access_token>>,
                        IF r.raised THEN RRaise ELSE RNone,
                        IF use_official THEN "official" ELSE "rettiwt", FALSE, ABSENT)
        /\ UNCHANGED <<writers, analytics, connected, now, store>>

BoundaryInit ==
    /\ connected = TRUE
    /\ now = 0
    /\ users = EmptyBag
    /\ tweets = EmptyBag
    /\ connections = EmptyBag
    /\ api_cache = EmptyBag
    /\ user_data = EmptyBag
    /\ last = StoreCall("init", "", <<>>, RNone)
    /\ official = OfficialIdle(TRUE)
    /\ rettiwt \in {RettiwtIdle(NoCache, s, "NONE") : s \in Sessions}
    /\ writers = NoWriters
    /\ analytics = NoAnalytics

BoundaryNext ==
    \/ \E caller \in {"get_twitter_api", "TwitterLiveAPI"}, use_official \in BOOLEAN,
          access_token \in AccessTokens, refresh_token \in BOOLEAN,
          username \in Handles \cup {"NONE"} :
          GetTwitterApi(caller, use_official, access_token, refresh_token, username)
    \/ RettiwtNext

BoundarySpec == BoundaryInit /\ [][BoundaryNext]_vars

(***************************************************************************)
(* The reconciliation of followers and following (analyze_network_quality, *)
(* get_follower_following_insights, create_follower_chart,                 *)
(* create_engagement_metrics). Account ids are numbers; a list of the      *)
(* archive is a run of consecutive ids, with or without a repeated record. *)
(***************************************************************************)
Run(i, j) == [k \in 1..(j - i + 1) |-> i + k - 1]

AccountLists ==
    {Run(i, j) : i \in 1..MaxAccounts, j \in 0..MaxAccounts}
      \cup {Run(i, j) \o <<i>> : i \in 1..4, j \in 1..4}

\* {f['follower']['accountId'] for f in followers}
AccountIds(records) == {records[k] : k \in DOMAIN records}

\* The reconciliation with the followers-only set left whole.
ReconcileFansWhole(follower_ids, following_ids) ==
    [mutual |-> follower_ids \cap following_ids,
     not_following_back |-> follower_ids,
     not_followed_back |-> following_ids \ follower_ids]

Reconcile(follower_ids, following_ids) ==
    [mutual |-> follower_ids \cap following_ids,
     not_following_back |-> follower_ids \ following_ids,
     not_followed_back |-> following_ids \ follower_ids]

\* A quotient of Python floats, kept exact as numerator and denominator.
Ratio(num, den) == [num |-> num, den |-> den]

\* len(mutual) / len(following) * 100 if following else 0
reciprocity_rate(mutual, following) ==
    IF Len(following) > 0 THEN Ratio(Cardinality(mutual) * 100, Len(following))
    ELSE Ratio(0, 1)

\* len(followers) / len(following) if following else 0
follower_ratio(followers, following) ==
    IF Len(following) > 0 THEN Ratio(Len(followers), Len(following)) ELSE Ratio(0, 1)

\* min(reciprocity_rate, 50) + min(follower_ratio * 20, 30) + min(len(mutual) / 10 * 20, 20),
\* over the denominator 10 * len(following) (10 when following is empty).
quality_score(followers, following, mutual) ==
    LET n == IF Len(following) > 0 THEN Len(following) ELSE 1
        rr == reciprocity_rate(mutual, following)
        fr == follower_ratio(followers, following)
    IN  Ratio(Min(rr.num * 10, 50 * 10 * n) + Min(fr.num * 20 * 10, 30 * 10 * n)
                + Min(Cardinality(mutual) * 20, 20 * 10) * n,
              10 * n)

NoReport == [returned |-> FALSE]

Loaded(followers, following) ==
    [op |-> "loaded", followers |-> followers, following |-> following,
     result |-> NoReport]

AnalyticsFrame == UNCHANGED <<official, rettiwt, writers, connected, now, store, last>>

\* AdvancedTwitterAnalytics.analyze_network_quality: nothing is returned when both
\* lists are empty.
AnalyzeNetworkQuality ==
    LET followers == analytics.followers
        following == analytics.following
        r == Reconcile(AccountIds(followers), AccountIds(following))
    IN
    /\ analytics.op = "loaded"
    /\ analytics' =
          [analytics EXCEPT !.op = "analyze_network_quality",
              !.result =
                 IF followers = <<>> /\ following = <<>> THEN NoReport
                 ELSE [returned |-> TRUE, sets |-> r,
                       total_connections |->
                           Cardinality(AccountIds(followers) \cup AccountIds(following)),
                       reciprocity_rate |-> reciprocity_rate(r.mutual, following),
                       follower_ratio |-> follower_ratio(followers, following),
                       quality_score |-> quality_score(followers, following, r.mutual)]]
    /\ AnalyticsFrame

\* TwitterArchiveAnalyzer.get_follower_following_insights
GetFollowerFollowingInsights ==
    LET r == Reconcile(AccountIds(analytics.followers), AccountIds(analytics.following))
    IN
    /\ analytics.op = "loaded"
    /\ analytics' =
          [analytics EXCEPT !.op = "get_follower_following_insights",
              !.result = [returned |-> TRUE, sets |-> r,
                          followers |-> Len(analytics.followers),
                          following |-> Len(analytics.following),
                          mutual |-> Cardinality(r.mutual)]]
    /\ AnalyticsFrame

\* TwitterDashboard.create_follower_chart: the three values of the pie.
CreateFollowerChart ==
    LET follower_ids == AccountIds(analytics.followers)
        following_ids == AccountIds(analytics.following)
        mutual == Cardinality(Reconcile(follower_ids, following_ids).mutual)
    IN
    /\ analytics.op = "loaded"
    /\ analytics' =
          [analytics EXCEPT !.op = "create_follower_chart",
              !.result = [returned |-> TRUE,
                          values |-> <<mutual, Cardinality(follower_ids) - mutual,
                                       Cardinality(following_ids) - mutual>>]]
    /\ AnalyticsFrame

\* TwitterDashboard.create_engagement_metrics: the ratio and the rate before they
\* are formatted.
CreateEngagementMetrics ==
    LET followers == analytics.followers
        following == analytics.following
        r == Reconcile(AccountIds(followers), AccountIds(following))
    IN
    /\ analytics.op = "loaded"
    /\ analytics' =
          [analytics EXCEPT !.op = "create_engagement_metrics",
              !.result = [returned |-> TRUE,
                          mutual |-> Cardinality(r.mutual),
                          reciprocity_rate |-> reciprocity_rate(r.mutual, following),
                          follower_ratio |-> follower_ratio(followers, following)]]
    /\ AnalyticsFrame

NetworkInit ==
    /\ connected = TRUE
    /\ now = 0
    /\ users = EmptyBag
    /\ tweets = EmptyBag
    /\ connections = EmptyBag
    /\ api_cache = EmptyBag
    /\ user_data = EmptyBag
    /\ last = StoreCall("init", "", <<>>, RNone)
    /\ official = OfficialIdle(TRUE)
    /\ rettiwt = RettiwtIdle(NoCache, "NONE", "NONE")
    /\ writers = NoWriters
    /\ analytics \in {Loaded(f, g) : f \in AccountLists, g \in AccountLists}

NetworkNext ==
    \/ AnalyzeNetworkQuality
    \/ GetFollowerFollowingInsights
    \/ CreateFollowerChart
    \/ CreateEngagementMetrics

NetworkSpec == NetworkInit /\ [][NetworkNext]_vars

(***************************************************************************)
(* The archive normalizer: extract_js_data and the loaders built on it.    *)
(* A file is missing, unreadable, without the 'window.YTD.x.partN = [...]' *)
(* pattern, with a payload that is not JSON, or holds a JSON list: empty,  *)
(* of objects, or of values that are not objects.                          *)
(***************************************************************************)
ArchiveKeys == <<"followers", "following", "tweets", "likes", "account", "profile">>

BadFiles == {"missing", "unreadable", "nomatch", "badjson"}
ListFiles == {"[]", "[objects]", "[scalars]"}
FileStates == BadFiles \cup ListFiles

\* open() or read() raising, no match, or json.loads raising: [] in all cases.
extract_js_data(file) == IF file \in BadFiles THEN "[]" ELSE file

\* account_data[0].get('account', {}): AttributeError when the first element is
\* not an object.
FirstGetRaises(list) == list = "[scalars]"

Nothing == [k \in {ArchiveKeys[i] : i \in DOMAIN ArchiveKeys} |-> "ABSENT"]

\* TwitterDashboard.load_all_data and TwitterArchiveAnalyzer.load_data, file after
\* file from position i: a list file is stored as extracted, account and profile
\* only when the extracted list is not empty, as the object of its first element.
RECURSIVE LoadFrom(_, _, _)
LoadFrom(files, data, i) ==
    IF i > Len(ArchiveKeys) THEN [raised |-> FALSE, data |-> data]
    ELSE LET key == ArchiveKeys[i]
             list == extract_js_data(files[key])
         IN  IF files[key] = "missing" THEN LoadFrom(files, data, i + 1)
             ELSE IF key \notin {"account", "profile"}
             THEN LoadFrom(files, [data EXCEPT ![key] = list], i + 1)
             ELSE IF list = "[]" THEN LoadFrom(files, data, i + 1)
             ELSE IF FirstGetRaises(list) THEN [raised |-> TRUE, data |-> data]
             ELSE LoadFrom(files, [data EXCEPT ![key] = "{}"], i + 1)

\* AdvancedTwitterAnalytics.load_data: every present file is extracted first, then
\* account and profile are unwrapped.
load_data(files) ==
    LET loaded == [k \in DOMAIN files |->
                      IF files[k] = "missing" THEN "ABSENT" ELSE extract_js_data(files[k])]
        account == IF loaded["account"] \in {"ABSENT", "[]"} THEN loaded
                   ELSE [loaded EXCEPT !["account"] = "{}"]
        profile == IF account["profile"] \in {"ABSENT", "[]"} THEN account
                   ELSE [account EXCEPT !["profile"] = "{}"]
    IN  IF FirstGetRaises(loaded["account"]) THEN [raised |-> TRUE, data |-> loaded]
        ELSE IF FirstGetRaises(account["profile"]) THEN [raised |-> TRUE, data |-> account]
        ELSE [raised |-> FALSE, data |-> profile]

Archive(files) == [op |-> "archive", files |-> files, result |-> NoReport]

\* The archives on disk: at most two files are not a list of objects.
Archives ==
    {f \in [DOMAIN Nothing -> FileStates] :
        Cardinality({k \in DOMAIN f : f[k] # "[objects]"}) <= 2}

LoadAllData(op) ==
    /\ analytics.op = "archive"
    /\ analytics' = [analytics EXCEPT !.op = op,
                        !.result = LoadFrom(analytics.files, Nothing, 1)]
    /\ AnalyticsFrame

LoadData ==
    /\ analytics.op = "archive"
    /\ analytics' = [analytics EXCEPT !.op = "AdvancedTwitterAnalytics.load_data",
                        !.result = load_data(analytics.files)]
    /\ AnalyticsFrame

ArchiveInit ==
    /\ connected = TRUE
    /\ now = 0
    /\ users = EmptyBag
    /\ tweets = EmptyBag
    /\ connections = EmptyBag
    /\ api_cache = EmptyBag
    /\ user_data = EmptyBag
    /\ last = StoreCall("init", "", <<>>, RNone)
    /\ official = OfficialIdle(TRUE)
    /\ rettiwt = RettiwtIdle(NoCache, "NONE", "NONE")
    /\ writers = NoWriters
    /\ analytics \in {Archive(f) : f \in Archives}

ArchiveNext ==
    \/ \E op \in {"TwitterDashboard.load_all_data", "TwitterArchiveAnalyzer.load_data"} :
          LoadAllData(op)
    \/ LoadData

ArchiveSpec == ArchiveInit /\ [][ArchiveNext]_vars

(***************************************************************************)
(* Concurrent writers. Each writer is one update with upsert that the      *)
(* server runs in two steps, the lookup of the filter and the write, and   *)
(* the steps of different writers interleave.                              *)
(***************************************************************************)
\* create_index(..., unique=True) of _setup_indexes: users, connections, tweets.
HasNoUniqueIndex(coll) == FALSE

HasUniqueIndex(coll) == coll \in {"users", "connections", "tweets"}

Writer(coll, kind, op, empty) ==
    [coll |-> coll, kind |-> kind, op |-> op, empty |-> empty,
     pc |-> "lookup", matched |-> FALSE, outcome |-> ""]

CollOf(name) == IF name = "tweets" THEN tweets ELSE api_cache

WritersFrame == UNCHANGED <<official, rettiwt, analytics, connected, now, users, connections,
                            user_data, last>>

\* The write lands in the collection of the writer.
Store(name, coll) ==
    IF name = "tweets" THEN tweets' = coll /\ UNCHANGED api_cache
    ELSE api_cache' = coll /\ UNCHANGED tweets

\* The server looks the filter up.
Lookup(w) ==
    /\ writers[w].pc = "lookup"
    /\ writers' = [writers EXCEPT ![w].pc = "write",
                      ![w].matched = (Find(CollOf(writers[w].coll), writers[w].op.filter) # {})]
    /\ UNCHANGED <<tweets, api_cache>>
    /\ WritersFrame

\* The server writes: the update of the document it found; or the insert, which a
\* unique index refuses when the key has appeared meanwhile: the server then runs
\* the operation again as an update, or reports the duplicate key to the client.
Write(w) ==
    LET me == writers[w]
        coll == CollOf(me.coll)
        present == Find(coll, me.op.filter) # {}
        updated == UpdateOne(coll, me.op, me.empty)
        fresh == Merge(Merge(Merge(me.empty, me.op.filter), me.op.set), me.op.setOnInsert)
    IN
    /\ me.pc = "write"
    /\ IF me.matched
       THEN /\ Store(me.coll, updated.coll)
            /\ writers' = [writers EXCEPT ![w].pc = "done", ![w].outcome = "updated"]
       ELSE IF present /\ HasUniqueIndex(me.coll)
       THEN \/ /\ Store(me.coll, updated.coll)
               /\ writers' = [writers EXCEPT ![w].pc = "done", ![w].outcome = "updated"]
            \/ /\ UNCHANGED <<tweets, api_cache>>
               /\ writers' = [writers EXCEPT ![w].pc = "done", ![w].outcome = "duplicate"]
       ELSE /\ Store(me.coll, Insert(coll, fresh))
            /\ writers' = [writers EXCEPT ![w].pc = "done", ![w].outcome = "inserted"]
    /\ WritersFrame

ConcInit(W) ==
    /\ connected = TRUE
    /\ now = 0
    /\ users = EmptyBag
    /\ tweets = EmptyBag
    /\ connections = EmptyBag
    /\ api_cache = EmptyBag
    /\ user_data = EmptyBag
    /\ last = StoreCall("init", "", <<>>, RNone)
    /\ official = OfficialIdle(TRUE)
    /\ rettiwt = RettiwtIdle(NoCache, "NONE", "NONE")
    /\ writers \in UNION {[1..n -> W] : n \in 2..MaxWriters}
    /\ analytics = NoAnalytics

\* Live syncs and archive ingestions of the tweet ("u1", "p1").
TweetWriters ==
    {Writer("tweets", "live", LiveOp("u1", t), EmptyTweetDoc) :
        t \in {x \in LiveTweets : x.id = "p1"}}
      \cup {Writer("tweets", "archive", ArchiveOp("u1", t), EmptyTweetDoc) :
        t \in {x \in ArchiveTweets : x.id_str = "p1"}}

ConcNext ==
    \/ \E w \in DOMAIN writers : Lookup(w)
    \/ \E w \in DOMAIN writers : Write(w)

ConcSpec == ConcInit(TweetWriters) /\ [][ConcNext]_vars

\* save_live_api_response calls for ("u1", "recent_tweets").
CacheWriters ==
    {Writer("api_cache", "cache", CacheOp("u1", "recent_tweets", n), EmptyCacheDoc) :
        n \in 1..2}

CacheConcSpec == ConcInit(CacheWriters) /\ [][ConcNext]_vars

(***************************************************************************)
(* The store's batch writes on records of the canonical shapes             *)
(* (tweets collection).                                                    *)
(***************************************************************************)
StoreTimes == {t \in Times : t <= TWEETS_TTL}

Next ==
    \/ Tick(StoreTimes)
    \/ Construct
    \/ \E u \in Subjects, b \in Batches(ArchiveTweets) : SaveTweets(u, b, {})
    \/ \E u \in Subjects, b \in Batches(LiveTweets) : SaveLiveTweets(u, b, {})

Spec == Init /\ [][Next]_vars

(***************************************************************************)
(* The four writers of the unique-keyed collections, at one instant.       *)
(***************************************************************************)
OneOf(S) == {<<x>> : x \in S}

UniqueNext ==
    \/ Construct
    \/ \E u \in Subjects, b \in OneOf(ArchiveTweets) : SaveTweets(u, b, {})
    \/ \E u \in Subjects, b \in OneOf(LiveTweets) : SaveLiveTweets(u, b, {})
    \/ \E u \in Subjects, b \in Batches(ConnUsers), t \in ConnTypes :
          SaveLiveConnections(u, b, t, {})
    \/ \E i \in UserInfos : CreateOrUpdateUser(i)

UniqueSpec == Init /\ [][UniqueNext]_vars

(***************************************************************************)
(* The relation lists.                                                     *)
(***************************************************************************)
ConnNext ==
    \/ Tick(StoreTimes)
    \/ Construct
    \/ \E u \in Subjects, b \in Batches(ConnUsers), t \in ConnTypes :
          SaveLiveConnections(u, b, t, {})

ConnSpec == Init /\ [][ConnNext]_vars

(***************************************************************************)
(* Every operation of Database, on a store that comes and goes.            *)
(***************************************************************************)
DegradeNext ==
    \/ Construct
    \/ \E u \in Subjects : SaveTweets(u, <<ArchiveTweet("p1", "7")>>, {})
    \/ \E u \in Subjects : SaveLiveTweets(u, <<LiveTweet("p1", LiveText("p1"), 10)>>, {})
    \/ \E u \in Subjects : SaveLiveConnections(u, <<ConnUser("c1", "Bob")>>, "followers", {})
    \/ CreateOrUpdateUser(UserInfo("u1", "Alice"))
    \/ \E u \in Subjects : SaveUserUpload(u, 1)
    \/ \E u \in Subjects : SaveLiveApiResponse(u, "followers", 1)
    \/ \E u \in Subjects : GetSavedTweets(u, 100)
    \/ \E u \in Subjects : GetSavedConnections(u, "followers", CONN_LIMIT)
    \/ \E u \in Subjects : GetUserByTwitterId(u)
    \/ \E u \in Subjects : GetUserUploads(u, UPLOADS_LIMIT)
    \/ \E u \in Subjects : GetGrowthData(u, GROWTH_DAYS)
    \/ \E u \in Subjects : GetCacheAge(u, "followers")
    \/ \E u \in Subjects : GetLiveApiResponse(u, "followers")

DegradeSpec == Init /\ [][DegradeNext]_vars

(***************************************************************************)
(* Batch writes in which a record can fail: a record whose document cannot *)
(* be built, or an operation the server rejects.                           *)
(***************************************************************************)
Rejections(batch) == {{}} \cup {{i} : i \in DOMAIN batch}

FaultNext ==
    \/ Construct
    \/ \E u \in Subjects, b \in Batches(ArchiveTweets \cup BadArchiveTweets) :
          \E r \in Rejections(b) : SaveTweets(u, b, r)
    \/ \E u \in Subjects, b \in Batches(LiveTweets \cup BadLiveTweets) :
          \E r \in Rejections(b) : SaveLiveTweets(u, b, r)
    \/ \E u \in Subjects, b \in Batches(ConnUsers) :
          \E r \in Rejections(b) : SaveLiveConnections(u, b, "followers", r)

FaultSpec == Init /\ [][FaultNext]_vars

(***************************************************************************)
(* The controller's three calls.                                           *)
(***************************************************************************)
CtlTimes == {t \in Times : t <= CONN_TTL}
CtlTweets == {<<>>, <<LiveTweet("p1", LiveText("p1"), 10)>>}
CtlUsers == {<<>>, <<ConnUser("c1", "Bob")>>}
Tokens == {"NONE", "tok"}

CtlNext ==
    \/ Tick(CtlTimes)
    \/ Construct
    \/ \E u \in Subjects, f \in BOOLEAN, r \in RemoteTweets(CtlTweets) :
          get_recent_tweets(u, 100, f, r)
    \/ \E u \in Subjects, k \in Tokens, f \in BOOLEAN, r \in RemoteUsers(CtlUsers) :
          get_followers(u, 100, k, f, r)
    \/ \E u \in Subjects, f \in BOOLEAN, r \in RemoteUsers(CtlUsers \ {<<>>}) :
          get_following(u, 100, "NONE", f, r)

CtlSpec == Init /\ [][CtlNext]_vars

(***************************************************************************)
(* get_recent_tweets under every max_results.                              *)
(***************************************************************************)
MaxResults == {0, 1, 100}
PostsTweets == {LiveTweet("p1", LiveText("p1"), 10), LiveTweet("p2", LiveText("p2"), 10)}

PostsNext ==
    \/ Tick(Times)
    \/ Construct
    \/ \E u \in Subjects, m \in MaxResults, f \in BOOLEAN,
          r \in RemoteTweets(Batches(PostsTweets)) :
          get_recent_tweets(u, m, f, r)

PostsSpec == Init /\ [][PostsNext]_vars

(***************************************************************************)
(* The cache age after writes of records and of cache entries.             *)
(***************************************************************************)
AgeEndpoints == {"recent_tweets", "followers"}

AgeNext ==
    \/ Tick(StoreTimes)
    \/ Construct
    \/ \E u \in Subjects : SaveTweets(u, <<ArchiveTweet("p1", "7")>>, {})
    \/ \E u \in Subjects : SaveLiveTweets(u, <<LiveTweet("p2", LiveText("p2"), 10)>>, {})
    \/ \E u \in Subjects : SaveLiveConnections(u, <<ConnUser("c1", "Bob")>>, "followers", {})
    \/ \E u \in Subjects, e \in AgeEndpoints : SaveLiveApiResponse(u, e, 1)
    \/ \E u \in Subjects, e \in AgeEndpoints : GetCacheAge(u, e)

AgeSpec == Init /\ [][AgeNext]_vars

(***************************************************************************)
(* Two subjects whose calls interleave, with the same post and the same    *)
(* follower.                                                               *)
(***************************************************************************)
IsoSubjects == {"A", "B"}

IsoNext ==
    \/ Construct
    \/ \E u \in IsoSubjects : SaveTweets(u, <<ArchiveTweet("p1", "7")>>, {})
    \/ \E u \in IsoSubjects : SaveLiveTweets(u, <<LiveTweet("p1", LiveText("p1"), 10)>>, {})
    \/ \E u \in IsoSubjects : SaveLiveConnections(u, <<ConnUser("c1", "Bob")>>, "followers", {})
    \/ \E u \in IsoSubjects : SaveLiveApiResponse(u, "recent_tweets", 1)
    \/ \E u \in IsoSubjects, e \in AgeEndpoints : GetCacheAge(u, e)
    \/ \E u \in IsoSubjects : GetSavedTweets(u, 100)
    \/ \E u \in IsoSubjects : GetSavedConnections(u, "followers", CONN_LIMIT)
    \/ \E u \in IsoSubjects, f \in BOOLEAN, r \in RemoteTweets(CtlTweets) :
          get_recent_tweets(u, 100, f, r)
    \/ \E u \in IsoSubjects, f \in BOOLEAN, r \in RemoteUsers(CtlUsers \ {<<>>}) :
          get_followers(u, 100, "NONE", f, r)

IsoSpec == Init /\ [][IsoNext]_vars

(***************************************************************************)
(* sync_tweets.py: the command-line sync, one process per run.             *)
(***************************************************************************)
\* args.username.lstrip('@')
LstripAt(username) == IF username = "@alice" THEN "alice" ELSE username

SyncUsernames == {"alice", "@alice"}

\* The sample display slices tweet.get('text', '') of the first three tweets:
\* a text of None is not subscriptable (TypeError).
SampleRaises(fetched) ==
    \E i \in 1..Min(3, Len(fetched)) : fetched[i].text = "NONE"

\* sys.exit(0 if success else 1); an exception that leaves main ends the
\* interpreter with status 1.
ExitCode(ret) == IF ret = "True" THEN 0 ELSE 1

\* The requests to the remote service in the order they are made:
\* api.get_user_by_username(username), api.get_all_tweets_since(user_id, days).
UserRequest == <<"get_user_by_username">>
BothRequests == <<"get_user_by_username", "get_all_tweets_since">>

\* The remote requests made whatever the store and the lookup say.
sync_tweets_fetch_first(found, user_info, fetched, rejected) ==
    [tweets |-> IF connected /\ fetched # <<>> /\ ~SampleRaises(fetched)
                THEN save_live_tweets(user_info.id, fetched, rejected).tweets
                ELSE tweets,
     ret |-> IF connected /\ found THEN "True" ELSE "False",
     path |-> IF ~connected THEN "store" ELSE IF ~found THEN "user" ELSE "new",
     requests |-> BothRequests]

\* sync_tweets after api = RettiwtAPI(username) and db = Database(); found and
\* user_info are the answer of get_user_by_username, fetched the list returned by
\* get_all_tweets_since ([] when the request failed).
sync_tweets(found, user_info, fetched, rejected) ==
    IF ~connected
    THEN [tweets |-> tweets, ret |-> "False", path |-> "store", requests |-> <<>>]
    ELSE IF ~found
    THEN [tweets |-> tweets, ret |-> "False", path |-> "user", requests |-> UserRequest]
    ELSE IF fetched = <<>>
    THEN [tweets |-> tweets, ret |-> "True", path |-> "empty", requests |-> BothRequests]
    ELSE IF SampleRaises(fetched)
    THEN [tweets |-> tweets, ret |-> "raise", path |-> "sample", requests |-> BothRequests]
    ELSE LET r == save_live_tweets(user_info.id, fetched, rejected)
         IN  [tweets |-> r.tweets, ret |-> "True",
              path |-> IF r.ret.n > 0 THEN "new" ELSE "nothing new",
              requests |-> BothRequests]

\* main up to db = Database(): the store is reachable or not.
SyncOpen(username, reachable) ==
    /\ connected' = reachable
    /\ last' = [StoreCall("sync_tweets", LstripAt(username), <<>>, RNone) EXCEPT
                   !.path = "open", !.conn = reachable]
    /\ UNCHANGED <<others, now, store>>

\* the rest of the run, to the exit of the process.
SyncRun(found, user_info, fetched, rejected) ==
    /\ last.op = "sync_tweets"
    /\ last.path = "open"
    /\ LET r == sync_tweets(found, user_info, fetched, rejected)
       IN  /\ tweets' = r.tweets
           /\ last' = [last EXCEPT !.args = fetched, !.rejected = rejected,
                          !.ret = RInt(ExitCode(r.ret)), !.path = r.path,
                          !.fetched = found, !.requests = r.requests]
    /\ UNCHANGED <<others, connected, now, users, connections, api_cache, user_data>>

SyncNext ==
    \/ \E username \in SyncUsernames, reachable \in BOOLEAN : SyncOpen(username, reachable)
    \/ \E found \in BOOLEAN, user_info \in UserInfos,
          fetched \in Batches(LiveTweets \cup BadLiveTweets) :
          \E rejected \in Rejections(fetched) : SyncRun(found, user_info, fetched, rejected)

SyncSpec == Init /\ [][SyncNext]_vars

(***************************************************************************)
(* _parse_twitter_date on the date strings, called directly and by the two *)
(* tweet writers.                                                          *)
(***************************************************************************)
DateStrings == {"NONE", "", LIVE_D1, LIVE_D2, ARCH_D1, ARCH_D2, LIVE_NOFRAC, BAD_DATE}

ParseTwitterDate(date_str) ==
    LET d == _parse_twitter_date(date_str) IN
    /\ last' = StoreCall("_parse_twitter_date", "", date_str,
                         IF d = NONE THEN RNone ELSE RInt(d))
    /\ UNCHANGED <<others, connected, now, store>>

DateNext ==
    \/ \E s \in DateStrings : ParseTwitterDate(s)
    \/ \E u \in Subjects, i \in TweetIds, s \in DateStrings :
          SaveTweets(u, <<[ArchiveTweet(i, "7") EXCEPT !.created_at = s]>>, {})
    \/ \E u \in Subjects, i \in TweetIds, s \in DateStrings :
          SaveLiveTweets(u, <<[LiveTweet(i, LiveText(i), 10) EXCEPT !.created_at = s]>>, {})

DateSpec == Init /\ [][DateNext]_vars

(***************************************************************************)
(* The life of a subject's record: the login (auth.py), which calls        *)
(* create_or_update_user, the command-line sync and the controller's fetch *)
(* of posts.                                                               *)
(***************************************************************************)
LifeNext ==
    \/ Tick(StoreTimes)
    \/ \E user_info \in UserInfos : CreateOrUpdateUser(user_info)
    \/ \E username \in SyncUsernames, reachable \in BOOLEAN : SyncOpen(username, reachable)
    \/ \E found \in BOOLEAN, user_info \in UserInfos, fetched \in CtlTweets :
          SyncRun(found, user_info, fetched, {})
    \/ \E u \in Subjects, f \in BOOLEAN, r \in RemoteTweets(CtlTweets) :
          get_recent_tweets(u, 100, f, r)

LifeSpec == Init /\ [][LifeNext]_vars

(***************************************************************************)
(* Claims on the tweets collection.                                        *)
(***************************************************************************)
Ids(batch) == {batch[i].id : i \in DOMAIN batch}
IdStrs(batch) == {batch[i].id_str : i \in DOMAIN batch}
OfUser(coll, user_id) == Count(coll, [user_id |-> user_id])

\* C1: a save_live_tweets call on a reachable store leaves every stored tweet
\* document as it was, creates exactly one document for each distinct key of the
\* batch that was absent, and raises the subject's document count by the number of
\* those keys.
C1_InsertOnlyLive ==
    [][(last'.op = "save_live_tweets" /\ last'.conn) =>
        LET u == last'.user
            absent == {k \in Ids(last'.args) : Find(tweets, TweetKey(u, k)) = {}}
        IN  /\ \A d \in BagToSet(tweets) : CopiesIn(d, tweets') = CopiesIn(d, tweets)
            /\ \A k \in absent : Count(tweets', TweetKey(u, k)) = 1
            /\ OfUser(tweets', u) = OfUser(tweets, u) + Cardinality(absent)]_vars

\* p1 is stored with 10 likes, the batch carried p1 with 50 likes and the new p2:
\* one document was created and p1 still has 10.
C1_Witness ==
    /\ last.op = "save_live_tweets" /\ last.conn
    /\ \E i, j \in DOMAIN last.args :
          /\ last.args[i].id = "p1" /\ last.args[i].like_count = 50
          /\ last.args[j].id = "p2"
    /\ \A i \in DOMAIN last.args : last.args[i].like_count # 10 \/ last.args[i].id # "p1"
    /\ last.ret = RInt(1)
    /\ \E d \in Find(tweets, TweetKey(last.user, "p1")) : d.favorite_count = 10
    /\ \E d \in Find(tweets, TweetKey(last.user, "p2")) : d.inserted_at = last.at

\* C2: after save_tweets(user_id, [r]) on a reachable store - the first application
\* of r or a repeated one - the store holds exactly one document for (user_id, r.id)
\* and each field of the archive payload has the value this application gave it.
C2_ArchiveIdempotent ==
    (last.op = "save_tweets" /\ last.conn /\ Len(last.args) = 1) =>
        LET r == last.args[1]
            key == TweetKey(last.user, r.id_str)
            payload == ArchiveTweetDoc(last.user, r)
        IN  /\ Count(tweets, key) = 1
            /\ \A d \in Find(tweets, key) : \A f \in DOMAIN payload : d[f] = payload[f]

\* The repeated application: the call found the document of r's key already equal
\* to the payload (r had been applied at this instant), modified nothing, and there
\* is still one document.
C2_Witness ==
    /\ last.op = "save_tweets" /\ last.conn /\ Len(last.args) = 1
    /\ last.ret = RInt(0)
    /\ Count(tweets, TweetKey(last.user, last.args[1].id_str)) = 1
    /\ \E d \in Find(tweets, TweetKey(last.user, last.args[1].id_str)) :
          d.uploaded_at = last.at /\ d.favorite_count = IntOf(last.args[1].favorite_count)

C3_UniqueKeys ==
    /\ \A d \in BagToSet(tweets) : Count(tweets, TweetKey(d.user_id, d.tweet_id)) = 1
    /\ \A d \in BagToSet(connections) :
          Count(connections, ConnKey(d.user_id, d.type, d.connection_id)) = 1
    /\ \A d \in BagToSet(users) : Count(users, [twitter_id |-> d.twitter_id]) = 1

\* Every collection holds a document that was written more than once: a tweet that
\* both writers wrote, a connection and a user whose name was changed by a second
\* write.
C3_Witness ==
    /\ \E d \in BagToSet(tweets) : d.inserted_at # ABSENT /\ d.uploaded_at # ABSENT
    /\ \E d \in BagToSet(connections) : d.name = "Bobby"
    /\ \E d \in BagToSet(connections) : d.name = "Bob"
    /\ \E d \in BagToSet(users) : d.name = "Al"
    /\ last.op = "create_or_update_user" /\ last.args.name = "Al"
    /\ last.ret.tag = "doc" /\ last.ret.items[1].name = "Al"
    /\ BagCardinality(users) = 1

BatchWrites == {"save_tweets", "save_live_tweets", "save_live_connections"}
SingleWrites == {"create_or_update_user", "save_user_upload", "save_live_api_response"}
ListReads == {"get_saved_tweets", "get_saved_connections", "get_user_uploads"}
SingleReads == {"get_user_by_twitter_id", "get_growth_data", "get_live_api_response"}

\* C6 as claimed: on an unreachable store every read returns an empty result (the
\* empty list or None), every write returns zero, and the store is not touched.
C6_ReadsEmptyWritesZero ==
    [][~last'.conn =>
        /\ store' = store
        /\ last'.op \in BatchWrites \cup SingleWrites => last'.ret = RInt(0)
        /\ last'.op \in ListReads \cup SingleReads => last'.ret \in {RList(<<>>), RNone}]_vars

\* C6 amended: on an unreachable store the batch writes return 0, the single-document
\* writes (create_or_update_user, save_user_upload, save_live_api_response) return
\* None, the list reads return the empty list, the single-value reads return None,
\* get_cache_age returns 999999, and the store is not touched.
C6_Degrades ==
    [][~last'.conn =>
        /\ store' = store
        /\ last'.op \in BatchWrites => last'.ret = RInt(0)
        /\ last'.op \in SingleWrites => last'.ret = RNone
        /\ last'.op \in ListReads => last'.ret = RList(<<>>)
        /\ last'.op \in SingleReads => last'.ret = RNone
        /\ last'.op = "get_cache_age" => last'.ret = RInt(NO_CACHE_AGE)]_vars

\* The store holds a tweet, a connection, a user, an upload and a cache entry, is
\* unreachable, and the user write returned None.
C6_Witness ==
    /\ ~last.conn /\ ~connected
    /\ last.op = "create_or_update_user" /\ last.ret = RNone
    /\ tweets # EmptyBag /\ connections # EmptyBag /\ users # EmptyBag
    /\ user_data # EmptyBag /\ api_cache # EmptyBag

(***************************************************************************)
(* Claims on batches with a failing record.                                *)
(***************************************************************************)
BatchOf(c) == IF c.op = "save_live_connections" THEN c.args.users_list ELSE c.args

\* The records of the call that fail: the server rejects the operation, or the
\* document cannot be built.
Failing(c) ==
    {i \in DOMAIN BatchOf(c) :
        \/ i \in c.rejected
        \/ c.op = "save_tweets" /\ ArchiveDocRaises(BatchOf(c)[i])
        \/ c.op = "save_live_tweets" /\ LiveDocRaises(BatchOf(c)[i])}

KeyOf(c, r) ==
    IF c.op = "save_tweets" THEN TweetKey(c.user, r.id_str)
    ELSE IF c.op = "save_live_tweets" THEN TweetKey(c.user, r.id)
    ELSE ConnKey(c.user, c.args.connection_type, r.id)

\* C7: when exactly one record of a batch fails, every other record of the batch
\* has its document in the store after the call, and the count the call returns is
\* at least the number of documents it created.
C7_PartialFailureTolerant ==
    [][(last'.op \in BatchWrites /\ last'.conn /\ Cardinality(Failing(last')) = 1) =>
        LET c == last'
            before == IF c.op = "save_live_connections" THEN connections ELSE tweets
            after == IF c.op = "save_live_connections" THEN connections' ELSE tweets'
        IN  /\ \A i \in DOMAIN BatchOf(c) \ Failing(c) :
                  Find(after, KeyOf(c, BatchOf(c)[i])) # {}
            /\ c.ret.n >= BagCardinality(after) - BagCardinality(before)]_vars

(***************************************************************************)
(* Claims on the cache-first controller.                                   *)
(***************************************************************************)
CtlOps == {"get_recent_tweets", "get_followers", "get_following"}
TTL(op) == IF op = "get_recent_tweets" THEN TWEETS_TTL ELSE CONN_TTL

\* C8: a controller call that finds the cache age equal to the TTL of its data
\* class asks the adapter and does not take the FRESH path; a call returns stored
\* data without asking the adapter only when the age is below the TTL.
C8_TTLBoundary ==
    last.op \in CtlOps =>
        /\ last.age = TTL(last.op) => last.fetched /\ last.path # "FRESH"
        /\ (~last.fetched \/ last.path = "FRESH") => last.age < TTL(last.op)

\* get_recent_tweets without force_refresh on a reachable store whose posts are
\* exactly 15 minutes old: the adapter was asked, failed, and the stored posts came
\* back through the fallback.
C8_Witness ==
    /\ last.op = "get_recent_tweets" /\ last.conn /\ ~last.args.force_refresh
    /\ last.age = TWEETS_TTL
    /\ last.fetched /\ last.path = "FALLBACK"
    /\ last.ret.n > 0

\* C9: a controller call with force_refresh asks the adapter and does not return by
\* the FRESH path, whatever the cache age and the store's content.
C9_ForceRefresh ==
    (last.op \in CtlOps /\ last.args.force_refresh) =>
        last.fetched /\ last.path # "FRESH"

\* get_followers with force_refresh on a reachable store whose followers are fresh:
\* the adapter was asked, failed, and the stored followers came back through the
\* fallback.
C9_Witness ==
    /\ last.op = "get_followers" /\ last.conn /\ last.args.force_refresh
    /\ last.args.pagination_token = "NONE"
    /\ last.age < CONN_TTL
    /\ last.fetched /\ last.path = "FALLBACK"
    /\ last.ret.tag = "list" /\ last.ret.n > 0

(***************************************************************************)
(* Claims on the fallback of get_recent_tweets.                            *)
(***************************************************************************)
\* C10 as claimed: when the fetch raises or yields nothing and the reachable store
\* holds N posts of the subject, the call returns N posts.
C10_FallbackReturnsAllStored ==
    (last.op = "get_recent_tweets" /\ last.path = "FALLBACK" /\ last.conn) =>
        last.ret.n = OfUser(tweets, last.user)

\* C10 amended: when the fetch raises or yields nothing, the call returns a list:
\* the empty list on an unreachable store; otherwise stored posts of the subject,
\* whatever their age, the most recent first, all N of them when max_results is 0
\* and min(N, max_results) of them otherwise.
C10_FallbackReturnsMostRecent ==
    (last.op = "get_recent_tweets" /\ last.path = "FALLBACK") =>
        LET stored == Find(tweets, [user_id |-> last.user])
            N == OfUser(tweets, last.user)
            m == last.args.max_results
            items == last.ret.items
            ids == {items[i].id : i \in DOMAIN items}
        IN  /\ last.ret.tag = "list"
            /\ ~last.conn => items = <<>>
            /\ last.conn =>
                /\ Len(items) = (IF m = 0 THEN N ELSE Min(N, m))
                /\ Cardinality(ids) = Len(items)
                /\ \A i \in DOMAIN items : \E d \in stored : MapTweet(d) = items[i]
                /\ \A d, e \in stored :
                      (d.tweet_id \in ids /\ e.tweet_id \notin ids) =>
                          d.created_at >= e.created_at

\* The store holds two posts older than the TTL, the fetch failed under
\* max_results = 1, and one post came back.
C10_Witness ==
    /\ last.op = "get_recent_tweets" /\ last.path = "FALLBACK" /\ last.conn
    /\ last.args.max_results = 1
    /\ OfUser(tweets, last.user) = 2
    /\ last.age > TWEETS_TTL /\ last.age # NO_CACHE_AGE
    /\ last.ret.n = 1

(***************************************************************************)
(* Claims on the fallback of get_followers / get_following.                *)
(***************************************************************************)
RelOps == {"get_followers", "get_following"}
EndpointOf(op) == IF op = "get_followers" THEN "followers" ELSE "following"

\* C11: when the fetch inside get_followers / get_following raises or returns no
\* data, the call returns a list: the stored connections of the subject and the
\* relation type, the empty list when the store holds none.
C11_RelationFallbackWellFormed ==
    (last.op \in RelOps /\ last.path = "FALLBACK") =>
        /\ last.ret.tag = "list"
        /\ last.conn =>
              last.ret.n = Count(connections,
                                 [user_id |-> last.user, type |-> EndpointOf(last.op)])

(***************************************************************************)
(* Claims on the cache age.                                                *)
(***************************************************************************)
\* The stored records of a (subject, data class) and the time each was last written.
RecordsOf(user_id, endpoint) ==
    IF endpoint = "recent_tweets" THEN Find(tweets, [user_id |-> user_id])
    ELSE Find(connections, [user_id |-> user_id, type |-> endpoint])

LastWritten(d, endpoint) ==
    IF endpoint = "recent_tweets"
    THEN (IF d.inserted_at > d.uploaded_at THEN d.inserted_at ELSE d.uploaded_at)
    ELSE d.updated_at

\* C12: on a reachable store that holds records of the (subject, data class),
\* get_cache_age returns the time since the most recent write of one of them; so
\* right after posts were written the post-history age is below the TTL.
C12_AgeFromRecords ==
    (last.op = "get_cache_age" /\ last.conn /\ RecordsOf(last.user, last.args) # {}) =>
        last.ret.n = last.at - MaxOf({LastWritten(d, last.args) :
                                        d \in RecordsOf(last.user, last.args)})

(***************************************************************************)
(* Claims on OfficialTwitterAPI.                                           *)
(***************************************************************************)
\* C13: a paginating call of the adapter makes at most the configured number of
\* page requests (32), whatever the backend answers.
C13_PageCap ==
    official.op \in PagingOps => official.pages <= MAX_PAGES

\* C14: when a page request of a paginating call is answered with a rate limit, the
\* call makes no further page request and returns exactly the items of the pages
\* received before.
C14_RateLimitPartial ==
    [][(official.pc = "consume" /\ official.op \in PagingOps
            /\ official.result.cause = "rate_limit") =>
        /\ official'.pc = "done"
        /\ official'.pages = official.pages
        /\ official'.ret = RInt(official.received)]_vars

\* Two pages of PageSize items, then a 429 on page 3: the call returned the items of
\* the two pages.
C14_Witness ==
    /\ official.pc = "done" /\ official.op = "get_recent_tweets"
    /\ official.cause = "rate_limit" /\ official.status = 429
    /\ official.pages = 3
    /\ official.ret = RInt(2 * PageSize)

\* C15: one _make_request call sends at most two HTTP requests and makes at most one
\* refresh attempt, and it sends the second request only after a refresh.
C15_OneRefreshOneRetry ==
    /\ official.sent <= 2
    /\ official.refreshes <= 1
    /\ official.sent = 2 => official.refreshes = 1

\* The retry after a refresh that worked was answered 401 again, and _make_request
\* is over with two requests and one refresh.
C15_Witness ==
    /\ official.pc = "consume"
    /\ official.sent = 2 /\ official.refreshes = 1
    /\ official.status = 401
    /\ official.result.kind = "None"

\* C16: a call that ended on an authorization failure whose refresh failed or was
\* impossible returns an outcome of its own, 'reauthentication required'.
C16_ReauthOutcome ==
    (official.pc = "done" /\ official.cause = "reauth") => official.ret.tag = "reauth"

(***************************************************************************)
(* Claims on RettiwtAPI.                                                   *)
(***************************************************************************)
\* C17: a call for a user_id that neither the cache nor the session maps to a
\* handle returns an empty result ([] or None).
C17_UnmappedFailsSoft ==
    (/\ rettiwt.op # "idle"
     /\ \A e \in rettiwt.cache : e.id # rettiwt.user_id
     /\ rettiwt.session.id # rettiwt.user_id) =>
        rettiwt.ret \in {RInt(0), RNone}

(***************************************************************************)
(* Claims on subject isolation.                                            *)
(***************************************************************************)
\* The documents of a subject in a collection, with their numbers of copies.
Part(coll, user_id) == [d \in Find(coll, [user_id |-> user_id]) |-> coll[d]]

\* C18: a call made for one subject leaves the post records, the connection
\* records, the cache entries and the cache ages of every other subject as they were.
C18_SubjectIsolation ==
    [][\A v \in IsoSubjects :
          (last'.op \notin {"tick", "construct"} /\ last'.user # v) =>
              /\ Part(tweets', v) = Part(tweets, v)
              /\ Part(connections', v) = Part(connections, v)
              /\ Part(api_cache', v) = Part(api_cache, v)
              /\ \A e \in AgeEndpoints : get_cache_age(v, e)' = get_cache_age(v, e)]_vars

\* A's fetch just stored p1 and A's cache entry while B holds p1, c1 and a cache
\* entry of its own.
C18_Witness ==
    /\ last.op = "get_recent_tweets" /\ last.user = "A" /\ last.path = "SUCCESS" /\ last.conn
    /\ Count(tweets, TweetKey("A", "p1")) = 1
    /\ Count(tweets, TweetKey("B", "p1")) = 1
    /\ Count(connections, ConnKey("B", "followers", "c1")) = 1
    /\ Count(api_cache, CacheKey("A", "recent_tweets")) = 1
    /\ Count(api_cache, CacheKey("B", "recent_tweets")) = 1
    /\ \E d \in Find(tweets, TweetKey("B", "p1")) : d.uploaded_at # ABSENT
    /\ \E d \in Find(tweets, TweetKey("A", "p1")) : d.uploaded_at = ABSENT


(***************************************************************************)
(* Claims on concurrent writers                                            *)
(***************************************************************************)
AllDone == \A w \in DOMAIN writers : writers[w].pc = "done"

Applied(w) == writers[w].outcome \in {"inserted", "updated"}

TheTweet == CHOOSE d \in Find(tweets, TweetKey("u1", "p1")) : TRUE

\* C19: when two or more writers write the same (user_id, tweet_id) concurrently,
\* the store never holds more than one record for the key and ends with exactly
\* one; when all the writers are live syncs the record carries the fields of the
\* first insert; and once an archive write has been applied to the inserted
\* record, the fields the archive write sets are those of an archive write.
C19_ConcurrentTweetWriters ==
    /\ Count(tweets, TweetKey("u1", "p1")) <= 1
    /\ AllDone => Count(tweets, TweetKey("u1", "p1")) = 1
    /\ (AllDone /\ \A w \in DOMAIN writers : writers[w].kind = "live") =>
          \E w \in DOMAIN writers :
              /\ writers[w].outcome = "inserted"
              /\ \A v \in DOMAIN writers \ {w} : writers[v].outcome # "inserted"
              /\ TheTweet = Merge(EmptyTweetDoc, writers[w].op.setOnInsert)
    /\ (\E w \in DOMAIN writers : writers[w].kind = "archive" /\ writers[w].outcome = "updated") =>
          \E a \in DOMAIN writers :
              /\ writers[a].kind = "archive"
              /\ Applied(a)
              /\ \A f \in DOMAIN writers[a].op.set : TheTweet[f] = writers[a].op.set[f]

\* Two live syncs raced for the insert, one lost, and an archive write was then
\* applied to the inserted record.
C19_Witness ==
    /\ AllDone
    /\ Count(tweets, TweetKey("u1", "p1")) = 1
    /\ \E w1, w2, w3 \in DOMAIN writers :
          /\ w1 # w2
          /\ writers[w1].kind = "live" /\ writers[w1].outcome = "inserted"
          /\ writers[w2].kind = "live" /\ ~writers[w2].matched
          /\ writers[w2].outcome \in {"updated", "duplicate"}
          /\ writers[w2].op # writers[w1].op
          /\ writers[w3].kind = "archive" /\ writers[w3].outcome = "updated"
          /\ TheTweet.favorite_count = writers[w3].op.set.favorite_count
          /\ TheTweet.impression_count = writers[w1].op.setOnInsert.impression_count

\* C20: the api_cache collection holds at most one entry per (user_id, endpoint),
\* also after concurrent save_live_api_response calls that found no entry.
C20_OneCacheEntry ==
    Count(api_cache, CacheKey("u1", "recent_tweets")) <= 1


(***************************************************************************)
(* Claims on the command-line sync.                                        *)
(***************************************************************************)
SyncExited == last.op = "sync_tweets" /\ last.path # "open"

\* C21: a run of the sync entry point exits with code 1 exactly when the store
\* is unreachable or the handle is not resolved to a subject, and with code 0 in
\* every other run (no posts fetched, nothing new to store included).
C21_ExitCode ==
    SyncExited => (last.ret.n = 1 <=> (~last.conn \/ ~last.fetched))


(***************************************************************************)
(* Claims on the boundary of the adapter layer.                            *)
(***************************************************************************)
\* C22: no operation raises past its boundary: every public operation of the
\* adapter layer, the factory get_twitter_api and the constructor of
\* TwitterLiveAPI included, returns a result to its caller instead of raising,
\* whatever the failure (a missing credential included).
C22_NoRaise == last.ret.tag # "raise"


(***************************************************************************)
(* Claims on the reconciliation of followers and following.                *)
(***************************************************************************)
FSet == AccountIds(analytics.followers)
GSet == AccountIds(analytics.following)

Reconciled ==
    /\ analytics.op \in {"analyze_network_quality", "get_follower_following_insights"}
    /\ analytics.result.returned

\* C23: for all follower sets F and following sets G, mutual = F \cap G,
\* fans = F \ G and not_followed_back = G \ F; the three sets are pairwise
\* disjoint, their union is F \cup G, |mutual| + |fans| = |F| and
\* |mutual| + |not_followed_back| = |G|; the chart shows the three sizes.
C23_ReconciliationSets ==
    /\ Reconciled =>
          LET mutual == analytics.result.sets.mutual
              fans == analytics.result.sets.not_following_back
              not_followed_back == analytics.result.sets.not_followed_back
          IN  /\ mutual = {a \in FSet : a \in GSet}
              /\ fans = {a \in FSet : a \notin GSet}
              /\ not_followed_back = {a \in GSet : a \notin FSet}
              /\ mutual \cap fans = {}
              /\ mutual \cap not_followed_back = {}
              /\ fans \cap not_followed_back = {}
              /\ mutual \cup fans \cup not_followed_back = FSet \cup GSet
              /\ Cardinality(mutual) + Cardinality(fans) = Cardinality(FSet)
              /\ Cardinality(mutual) + Cardinality(not_followed_back) = Cardinality(GSet)
    /\ analytics.op = "create_follower_chart" =>
          analytics.result.values =
              <<Cardinality({a \in FSet : a \in GSet}),
                Cardinality({a \in FSet : a \notin GSet}),
                Cardinality({a \in GSet : a \notin FSet})>>

\* followers {1, 2, 3} and following {2, 3, 4}: mutual {2, 3}, fans {1},
\* not followed back {4}.
C23_Witness ==
    /\ Reconciled
    /\ FSet = {1, 2, 3}
    /\ GSet = {2, 3, 4}
    /\ analytics.result.sets.mutual = {2, 3}
    /\ analytics.result.sets.not_following_back = {1}
    /\ analytics.result.sets.not_followed_back = {4}


HasRatios ==
    /\ analytics.op \in {"analyze_network_quality", "create_engagement_metrics"}
    /\ analytics.result.returned

\* C24: reciprocity_rate = |mutual| / |G| x 100 and follower_ratio = |F| / |G|,
\* computed over the identifier sets; both are 0 when G is empty; the composite
\* quality score lies in [0, 100].
C24_DerivedRatios ==
    /\ HasRatios =>
          LET rr == analytics.result.reciprocity_rate
              fr == analytics.result.follower_ratio
              mutual == {a \in FSet : a \in GSet}
          IN  IF GSet = {} THEN rr.num = 0 /\ fr.num = 0
              ELSE /\ rr.num * Cardinality(GSet) = Cardinality(mutual) * 100 * rr.den
                   /\ fr.num * Cardinality(GSet) = Cardinality(FSet) * fr.den
    /\ (analytics.op = "analyze_network_quality" /\ analytics.result.returned) =>
          /\ analytics.result.quality_score.num >= 0
          /\ analytics.result.quality_score.num <= 100 * analytics.result.quality_score.den


(***************************************************************************)
(* Claims on the archive normalizer.                                       *)
(***************************************************************************)
ArchiveLoaded == analytics.op \notin {"idle", "archive"} /\ "files" \in DOMAIN analytics

\* C25: the normalizer fails soft per file: a file that is missing, unreadable,
\* without the pattern or with a payload that is not JSON yields the empty
\* dataset and no exception, and loading an archive in which a file is malformed
\* still loads every other present file.
C25_NormalizerFailsSoft ==
    ArchiveLoaded =>
        /\ ~analytics.result.raised
        /\ \A k \in DOMAIN analytics.files :
              /\ analytics.files[k] \in BadFiles =>
                    analytics.result.data[k] \in {"ABSENT", "[]"}
              /\ analytics.files[k] = "[objects]" =>
                    analytics.result.data[k] \in {"[objects]", "{}"}


(***************************************************************************)
(* Claims on date parsing.                                                 *)
(***************************************************************************)
InArchiveFormat(s) == s \in {"Mon Dec 01 06:23:48 +0000 2025", "Tue Dec 02 06:23:48 +0000 2025"}
InLiveFormat(s) == s \in {"2025-12-01T06:23:48.000Z", "2025-12-02T06:23:48.000Z"}

\* the day of December 2025 the string names
DayOf(s) ==
    IF s \in {"Mon Dec 01 06:23:48 +0000 2025", "2025-12-01T06:23:48.000Z"} THEN 1 ELSE 2

\* C26: _parse_twitter_date returns the timestamp of every string in the archive
\* format and of every string in the live format, and returns null, without
\* raising, for every other input, the empty and the absent one included; the
\* archive writer stores what it returns.
C26_DateParsing ==
    /\ last.op = "_parse_twitter_date" =>
          IF InArchiveFormat(last.args) \/ InLiveFormat(last.args)
          THEN last.ret = RInt(DayOf(last.args))
          ELSE last.ret = RNone
    /\ (last.op = "save_tweets" /\ last.conn) =>
          \A d \in Find(tweets, TweetKey(last.user, last.args[1].id_str)) :
              d.created_at =
                  IF InArchiveFormat(last.args[1].created_at)
                       \/ InLiveFormat(last.args[1].created_at)
                  THEN DayOf(last.args[1].created_at) ELSE NONE

\* an archive date was parsed while the store holds a post whose date came from a
\* live string and one whose date could not be parsed
C26_Witness ==
    /\ last.op = "_parse_twitter_date"
    /\ last.args = ARCH_D2
    /\ last.ret = RInt(2)
    /\ \E d \in BagToSet(tweets) : d.created_at = 1 /\ d.inserted_at # ABSENT
    /\ \E d \in BagToSet(tweets) : d.created_at = NONE


(***************************************************************************)
(* Claims on the subject's record.                                         *)
(***************************************************************************)
SubjectRecords(coll, id) == Find(coll, [twitter_id |-> id])

\* C27: a subject's record exists in the store after the first sync of that
\* subject, is updated on every later successful fetch for that subject, and is
\* never deleted by an operation of this layer.
C27_SubjectLifecycle ==
    [][/\ (last'.op = "sync_tweets" /\ last'.path \in {"new", "nothing new"}) =>
              \E id \in Subjects : SubjectRecords(users', id) # {}
       /\ (last'.op = "get_recent_tweets" /\ last'.path = "SUCCESS" /\ last'.conn) =>
              \E d \in SubjectRecords(users', last'.user) : d.updated_at = now'
       /\ \A id \in Subjects :
              SubjectRecords(users, id) # {} => SubjectRecords(users', id) # {}]_vars


(***************************************************************************)
(* Claims on the FRESH path of the controller.                             *)
(***************************************************************************)
\* the store holds a record of the subject in the data class of the call
HoldsRecord(op, user_id) ==
    IF op = "get_recent_tweets" THEN Find(tweets, [user_id |-> user_id]) # {}
    ELSE Find(connections, [user_id |-> user_id, type |-> EndpointOf(op)]) # {}

FreshConditions(call) ==
    /\ ~call.args.force_refresh
    /\ call.conn
    /\ call.age < TTL(call.op)

\* C28 as claimed: without force_refresh, on a connected store, with a cache age
\* below the TTL and a stored record of the (subject, data class), the call
\* returns the stored data, asks the adapter nothing and writes nothing; with no
\* stored record it attempts a live fetch although the age is below the TTL.
C28_FreshPath ==
    [][last'.op \in CtlOps =>
          /\ (FreshConditions(last') /\ HoldsRecord(last'.op, last'.user)) =>
                /\ last'.path = "FRESH" /\ ~last'.fetched
                /\ last'.ret.tag = "list" /\ last'.ret.n > 0
                /\ UNCHANGED store
          /\ (FreshConditions(last') /\ ~HoldsRecord(last'.op, last'.user)) =>
                last'.fetched]_vars

\* C28 amended: the same, for a call that passes no pagination token; a call of
\* get_followers or get_following with a pagination token attempts a live fetch
\* whatever the age.
C28_FreshPathFirstPage ==
    [][last'.op \in CtlOps =>
          /\ (FreshConditions(last') /\ last'.args.pagination_token = "NONE"
                /\ HoldsRecord(last'.op, last'.user)) =>
                /\ last'.path = "FRESH" /\ ~last'.fetched
                /\ last'.ret.tag = "list" /\ last'.ret.n > 0
                /\ UNCHANGED store
          /\ (FreshConditions(last') /\ ~HoldsRecord(last'.op, last'.user)) =>
                last'.fetched
          /\ last'.args.pagination_token # "NONE" => last'.fetched]_vars

\* get_followers without force_refresh and without a token served the stored
\* followers, fresh, without asking the adapter
C28_Witness ==
    /\ last.op = "get_followers"
    /\ FreshConditions(last)
    /\ last.args.pagination_token = "NONE"
    /\ HoldsRecord(last.op, last.user)
    /\ last.path = "FRESH" /\ ~last.fetched
    /\ last.ret.n > 0


(***************************************************************************)
(* Claims on the shape of a controller call.                               *)
(***************************************************************************)
\* the records of a fetched list are in the store (primed: after the call)
PersistedAfter(call) ==
    \A i \in DOMAIN call.ret.items :
        IF call.op = "get_recent_tweets"
        THEN Find(tweets', TweetKey(call.user, call.ret.items[i].id)) # {}
        ELSE Find(connections',
                  ConnKey(call.user, EndpointOf(call.op), call.ret.items[i].id)) # {}

\* C29: every call of get_recent_tweets, get_followers or get_following ends in
\* exactly one of FRESH (stored data, no fetch), SUCCESS (fetched data, persisted
\* before the return, the store being reachable) or FALLBACK (stored data or the
\* empty result after a failed fetch); the store changes only in a call whose
\* fetch returned data.
C29_CallShape ==
    [][last'.op \in CtlOps =>
          /\ last'.path \in {"FRESH", "SUCCESS", "FALLBACK"}
          /\ last'.path = "FRESH" =>
                ~last'.fetched /\ last'.ret.tag = "list" /\ UNCHANGED store
          /\ last'.path = "SUCCESS" =>
                /\ last'.fetched /\ last'.ret.tag = "list"
                /\ last'.conn => PersistedAfter(last')
          /\ last'.path = "FALLBACK" =>
                last'.fetched /\ last'.ret.tag = "list" /\ UNCHANGED store
          /\ ~(UNCHANGED store) => last'.path = "SUCCESS"]_vars


(***************************************************************************)
(* Claims on the frame of a failed fetch.                                  *)
(***************************************************************************)
\* the adapter was asked and raised, or returned no data
FetchedNothing(call) ==
    /\ call.op \in CtlOps
    /\ call.fetched
    /\ call.path = "FALLBACK" \/ (call.path = "SUCCESS" /\ call.ret.n = 0)

TWEETS_PER_PAGE == 100

\* C31: a get_recent_tweets call of the token-bearer adapter makes at most 32 page
\* requests and, with at most 100 items per page, returns at most 3200 posts,
\* whatever the backend answers.
C31_RecentTweetsPageCap ==
    (official.op = "get_recent_tweets" /\ PageSize <= TWEETS_PER_PAGE) =>
        /\ official.pages <= MAX_PAGES
        /\ official.all_tweets <= official.pages * PageSize
        /\ official.pc = "done" =>
              /\ official.ret.tag = "int"
              /\ official.ret.n <= MAX_PAGES * TWEETS_PER_PAGE

\* Every one of the 32 pages came full and with a continuation token: the call
\* returned 32 pages of items and asked for no 33rd page.
C31_Witness ==
    /\ official.op = "get_recent_tweets" /\ official.pc = "done"
    /\ official.pages = MAX_PAGES
    /\ official.result.next_token
    /\ official.ret = RInt(MAX_PAGES * PageSize)

\* The pages 1, 2, ..., n in this order.
FirstPages(n) == [i \in 1..n |-> i]

\* The loop is over a response that carries no data or no continuation token.
LastPage(o) ==
    /\ o.pc = "consume" /\ o.op \in PagingOps
    /\ ~(o.result.kind = "json" /\ o.result.data > 0 /\ o.result.next_token)

\* C32: a paginated fetch of the adapter requests page i+1 with the continuation
\* token that page i returned, stops at the first page whose response carries no
\* continuation token or no data, and returns the items of the successful pages in
\* request order, each page once.
C32_PaginationAccumulates ==
    [][official'.op \in PagingOps =>
        /\ official'.pc \in {"request", "refresh", "retry", "consume"} =>
              /\ PageOf(official'.pagination_token) = official'.pages
              /\ official'.fetched = FirstPages(official'.pages - 1)
        /\ official'.fetched = FirstPages(Len(official'.fetched))
        /\ official'.all_tweets = Len(official'.fetched) * PageSize
        /\ LastPage(official) =>
              /\ official'.pc = "done"
              /\ official'.pages = official.pages
        /\ official'.pc = "done" => official'.ret = RInt(official'.all_tweets)]_vars

\* Three full pages, the third without a continuation token: the call returned the
\* pages 1, 2, 3.
C32_Witness ==
    /\ official.op = "get_all_tweets_since" /\ official.pc = "done"
    /\ official.pages = 3
    /\ official.fetched = <<1, 2, 3>>
    /\ official.pagination_token = 2
    /\ official.ret = RInt(3 * PageSize)


(***************************************************************************)
(* Relation lists of more than one page: the backend answers the page that *)
(* the token of the request designates, the first page when the request    *)
(* carries none.                                                           *)
(***************************************************************************)
\* self._api.get_followers(user_id, max_results=max_results): the adapter's method
\* takes no token, the request goes out without one.
AdapterToken(pagination_token) == "NONE"

\* The backend's relation list: the first page, and the page behind "tok".
RelationPage(token) ==
    IF token = "NONE" THEN <<ConnUser("c1", "Bob")>> ELSE <<ConnUser("c2", "Bob")>>

\* The adapter's answer to a request with the token: the page, or a failure.
RemotePages(token) ==
    {[kind |-> "raises", data |-> <<>>], [kind |-> "data", data |-> RelationPage(token)]}

PagesNext ==
    \/ Tick(CtlTimes)
    \/ Construct
    \/ \E u \in Subjects, k \in Tokens, f \in BOOLEAN :
          \E r \in RemotePages(AdapterToken(k)) : get_followers(u, 100, k, f, r)
    \/ \E u \in Subjects, k \in Tokens, f \in BOOLEAN :
          \E r \in RemotePages(AdapterToken(k)) : get_following(u, 100, k, f, r)

PagesSpec == Init /\ [][PagesNext]_vars

\* The call passed a continuation token.
Continuation ==
    /\ last.op \in RelOps
    /\ last.args.pagination_token # "NONE"

\* C33: a get_followers / get_following call given a continuation token requests
\* the page that the token designates, so a successful call returns that page and
\* not the first page again.
C33_ContinuationHonoured ==
    (Continuation /\ last.path = "SUCCESS") =>
        last.ret = RList(RelationPage(last.args.pagination_token))


\* C34: a get_followers / get_following call made with a continuation token never
\* returns through the FRESH path and, when its fetch succeeds, writes no
\* connection record and no generic-cache entry, so the cache age of the relation
\* list stays what it was.
C34_ContinuationBypassesStore ==
    [][(last'.op \in RelOps /\ last'.args.pagination_token # "NONE") =>
        /\ last'.path # "FRESH"
        /\ last'.path = "SUCCESS" =>
              /\ last'.fetched
              /\ UNCHANGED <<connections, api_cache>>
              /\ \A u \in Subjects, e \in ConnTypes :
                    get_cache_age(u, e)' = get_cache_age(u, e)]_vars

\* The followers of the subject are stored and fresh, and a call without
\* force_refresh that passed a token fetched a page all the same and left the
\* stored age where it was.
C34_Witness ==
    /\ Continuation /\ last.op = "get_followers" /\ last.path = "SUCCESS"
    /\ ~last.args.force_refresh /\ connected
    /\ last.age = TWEETS_TTL
    /\ get_cache_age(last.user, "followers") = TWEETS_TTL
    /\ NonEmpty(get_saved_connections(last.user, "followers", CONN_LIMIT))


(***************************************************************************)
(* Claims on the size of the post result.                                  *)
(***************************************************************************)
\* C35: get_recent_tweets(user_id, max_results) returns at most max_results posts,
\* whether the result comes from the FRESH path, from a successful live fetch or
\* from the fallback.
C35_MaxResultsBoundsPosts ==
    last.op = "get_recent_tweets" => last.ret.n <= last.args.max_results


(***************************************************************************)
(* Every writer of the store, the controller and the sync entry point, on  *)
(* relation lists that change between fetches.                             *)
(***************************************************************************)
GrowUsers == {<<ConnUser("c1", "Bob")>>, <<ConnUser("c2", "Bob")>>}

GrowNext ==
    \/ Construct
    \/ \E u \in Subjects : SaveTweets(u, <<ArchiveTweet("p1", "7")>>, {})
    \/ \E u \in Subjects : SaveLiveTweets(u, <<LiveTweet("p1", LiveText("p1"), 10)>>, {})
    \/ \E u \in Subjects : SaveLiveConnections(u, <<ConnUser("c1", "Bob")>>, "followers", {})
    \/ CreateOrUpdateUser(UserInfo("u1", "Alice"))
    \/ \E u \in Subjects : SaveLiveApiResponse(u, "followers", 1)
    \/ \E u \in Subjects, f \in BOOLEAN, r \in RemoteTweets(CtlTweets) :
          get_recent_tweets(u, 100, f, r)
    \/ \E u \in Subjects, f \in BOOLEAN, r \in RemoteUsers(GrowUsers) :
          get_followers(u, 100, "NONE", f, r)
    \/ \E username \in SyncUsernames, reachable \in BOOLEAN : SyncOpen(username, reachable)
    \/ \E found \in BOOLEAN, fetched \in CtlTweets :
          SyncRun(found, UserInfo("u1", "Alice"), fetched, {})

GrowSpec == Init /\ [][GrowNext]_vars

\* The key sets of the four collections.
UserKeys == {d.twitter_id : d \in BagToSet(users)}
TweetKeys == {TweetKey(d.user_id, d.tweet_id) : d \in BagToSet(tweets)}
ConnKeys == {ConnKey(d.user_id, d.type, d.connection_id) : d \in BagToSet(connections)}
CacheKeys == {CacheKey(d.user_id, d.endpoint) : d \in BagToSet(api_cache)}

\* The identifiers that get_saved_connections returns for the relation list.
ReturnedIds(user_id, connection_type) ==
    UNION {{s[i].id : i \in DOMAIN s} :
             s \in get_saved_connections(user_id, connection_type, CONN_LIMIT)}

\* C36: no operation of the store, the controller or the sync entry point removes
\* a record: the key sets of users, posts, connections and generic cache never lose
\* a key, no collection loses a document, and a connection returned by
\* get_saved_connections is still returned after every later operation on a
\* reachable store, a live fetch without it included.
C36_StoreOnlyGrows ==
    [][/\ UserKeys \subseteq UserKeys'
       /\ TweetKeys \subseteq TweetKeys'
       /\ ConnKeys \subseteq ConnKeys'
       /\ CacheKeys \subseteq CacheKeys'
       /\ BagCardinality(users) <= BagCardinality(users')
       /\ BagCardinality(tweets) <= BagCardinality(tweets')
       /\ BagCardinality(connections) <= BagCardinality(connections')
       /\ BagCardinality(api_cache) <= BagCardinality(api_cache')
       /\ (connected /\ connected') =>
             \A u \in Subjects, t \in ConnTypes :
                ReturnedIds(u, t) \subseteq ReturnedIds(u, t)']_vars

\* Follower c1 was stored; a later live fetch of the followers brought c2 only, and
\* the stored list still returns c1 beside c2.
C36_Witness ==
    /\ last.op = "get_followers" /\ last.path = "SUCCESS"
    /\ last.ret = RList(<<ConnUser("c2", "Bob")>>)
    /\ ReturnedIds(last.user, "followers") = {"c1", "c2"}
    /\ UserKeys # {} /\ TweetKeys # {} /\ CacheKeys # {}


(***************************************************************************)
(* Claims on the counts that the batch writes report.                      *)
(***************************************************************************)
\* The documents of the collection that the step created, and the documents it
\* held before that the step changed.
Created(coll, coll2) == BagCardinality(coll2) - BagCardinality(coll)
Changed(coll, coll2) == Cardinality(BagToSet(coll) \ BagToSet(coll2))

\* C37: save_live_tweets returns the number of records it newly created, between 0
\* and the size of the batch; save_tweets and save_live_connections return the
\* number of records created plus the number of existing records whose stored
\* fields changed.
C37_ReportedCounts ==
    [][/\ last'.op = "save_live_tweets" =>
             /\ last'.ret.n = Created(tweets, tweets')
             /\ last'.ret.n <= Len(last'.args)
       /\ last'.op = "save_tweets" =>
             last'.ret.n = Created(tweets, tweets') + Changed(tweets, tweets')
       /\ last'.op = "save_live_connections" =>
             last'.ret.n = Created(connections, connections')
                              + Changed(connections, connections')]_vars


(***************************************************************************)
(* Claims on the order of the sync entry point.                            *)
(***************************************************************************)
\* C38: sync_tweets checks the store before any remote request and resolves the
\* subject before it fetches posts; it makes no remote request when the store is
\* unreachable, and it writes nothing to the store when the subject is not resolved
\* or when the fetch returned no posts.
C38_SyncOrder ==
    [][(last'.op = "sync_tweets" /\ last'.path # "open") =>
        /\ last'.requests \in {<<>>, UserRequest, BothRequests}
        /\ ~last'.conn => last'.requests = <<>>
        /\ ~last'.fetched => last'.requests # BothRequests
        /\ (~last'.fetched \/ last'.args = <<>>) => UNCHANGED store]_vars

\* A run on a reachable store that resolved the subject, fetched posts and stored
\* new ones: the lookup request, then the fetch request, then the write.
C38_Witness ==
    /\ SyncExited /\ last.path = "new"
    /\ last.conn /\ last.fetched
    /\ last.requests = BothRequests
    /\ tweets # EmptyBag


(***************************************************************************)
(* Claims on the round trip of a live post through the store.              *)
(***************************************************************************)
\* The metric set of a post.
Metrics ==
    {"like_count", "retweet_count", "reply_count", "quote_count", "bookmark_count",
     "impression_count"}

\* The record carries the id, the text and every metric of the live record.
SameAsLive(r, t) ==
    /\ r.id = t.id
    /\ r.text = t.text
    /\ \A m \in Metrics : m \in DOMAIN r /\ r[m] = t[m]

\* The entry i of the batch is the one that created the record of its key.
NewlyInserted(user_id, batch, i) ==
    /\ Find(tweets, TweetKey(user_id, batch[i].id)) = {}
    /\ \A j \in 1..(i - 1) : batch[j].id # batch[i].id

\* C39: for a post that save_live_tweets newly inserted, get_saved_tweets returns a
\* record with the same id, the same text and the same value for every metric
\* (like, repost, reply, quote, bookmark, impression counts) as the live record.
C39_LiveRoundTrip ==
    [][\A u \in Subjects :
        (last'.op = "save_live_tweets" /\ last'.user = u /\ last'.ret.n > 0) =>
            \A i \in DOMAIN last'.args :
                NewlyInserted(u, last'.args, i) =>
                    \A s \in get_saved_tweets(u, FRESH_LIMIT)' :
                        \E k \in DOMAIN s : SameAsLive(s[k], last'.args[i])]_vars


(***************************************************************************)
(* Claims on the identity a call is answered for.                          *)
(***************************************************************************)
\* C40: data fetched by the cookie-bearer backend for a requested user_id is data
\* of that user_id's subject: the handle that the request names is the handle of
\* user_id, never a handle held for another subject.
C40_NoIdentityLeak ==
    (rettiwt.op # "idle" /\ rettiwt.requested) =>
        rettiwt.handle = HandleOf(rettiwt.user_id)

====
